---------------------------- MODULE Spec2Model ----------------------------
(***************************************************************************)
(* Streaming Merkle tree of spacemeshos/merkle-tree: incremental           *)
(* construction (Tree.AddLeaf, Tree.RootAndProof, parked nodes), the       *)
(* cache writer/reader, proof generation from a cache and proof            *)
(* validation.                                                             *)
(*                                                                         *)
(* Node values are modelled as terms: a leaf is a 1-tuple <<k>>, the       *)
(* padding value is <<0>>, a nil byte slice is the empty tuple and the     *)
(* hash of two children is the pair <<l, r>>.  The pair is a collision-free*)
(* hash, and the code never inspects the bytes of a node except to compare *)
(* a slice with nil or two roots with each other.                          *)
(***************************************************************************)
EXTENDS Integers, Sequences, FiniteSets, TLC

\* ------------------------------------------------------------------ bounds
\* Leaves added to the tree of the proving specification (Spec).
MaxLeaves == 6
\* Largest minHeight given to the builder.
MaxMinHeight == 3
\* Leaves added to the tree of the caching specification (SpecCache).
MaxCachedLeaves == 5

\* --------------------------------------------------------- values and nodes
Nil == <<>>

NoErr == "nil"

\* The i-th leaf the callers add (the tests add NewNodeFromUint64(i)); leaves
\* are distinct and, by the convention stated at PaddingValue, never padding.
LeafValue(i) == <<i + 1>>

PaddingValue == [value |-> <<0>>, OnProvenPath |-> FALSE]

EmptyNode == [value |-> Nil, OnProvenPath |-> FALSE]

IsEmpty(n) == n.value = Nil

\* The injected hash function: collision-free.
HashFunc(lChild, rChild) == <<lChild, rChild>>

Pow2(n) == 2 ^ n

\* body applied to value: value is computed once.
With(value, body(_)) == body(value)

\* uint(math.Ceil(math.Log2(float64(width)))) for width >= 1.
RootHeightFromWidth(width) ==
    CHOOSE h \in 0..width : Pow2(h) >= width /\ (h = 0 \/ Pow2(h - 1) < width)

\* ------------------------------------------------------------- Go slices
\* A [][]byte slice with its backing array: elems are the len(s) visible
\* elements, spare the cap(s)-len(s) array slots behind them.
EmptySlice == [elems |-> <<>>, spare |-> <<>>]

\* Capacity the runtime gives a slice that outgrew a capacity of oldCap.
GrowCap(oldCap) == IF oldCap = 0 THEN 1 ELSE 2 * oldCap

\* s = append(s, x): writes the slot behind the last element when the array
\* has one, and moves to a larger array otherwise.
AppendSlice(s, x) ==
    IF Len(s.spare) > 0
    THEN [elems |-> Append(s.elems, x), spare |-> Tail(s.spare)]
    ELSE [elems |-> Append(s.elems, x),
          spare |-> [i \in 1..(GrowCap(Len(s.elems)) - Len(s.elems) - 1) |-> Nil]]

\* ------------------------------------------------------------ cache writer
\* cache.Writer: layers maps a height to the nodes appended to its layer;
\* policy is the set of heights the caching policy admits.  appendFails and
\* factoryFails are the heights whose layer writer fails to append and whose
\* layer the factory fails to create.  disabledCacheWriter has enabled = FALSE.
disabledCacheWriter ==
    [enabled |-> FALSE, layers |-> <<>>, policy |-> {},
     appendFails |-> {}, factoryFails |-> {}]

NewWriter(policy, appendFails, factoryFails) ==
    [enabled |-> TRUE, layers |-> <<>>, policy |-> policy,
     appendFails |-> appendFails, factoryFails |-> factoryFails]

\* A GetLayerWriter that asks the factory whenever the policy admits the
\* height, whether or not a layer is stored for it.
GetLayerWriterAlwaysCreates(c, layerHeight) ==
    IF layerHeight \in c.policy
    THEN [cw |-> [c EXCEPT !.layers = (layerHeight :> <<>>) @@ @],
          writer |-> TRUE, layer |-> <<>>, calls |-> 1, err |-> NoErr]
    ELSE [cw |-> c, writer |-> layerHeight \in DOMAIN c.layers,
          layer |-> IF layerHeight \in DOMAIN c.layers
                    THEN c.layers[layerHeight] ELSE Nil,
          calls |-> 0, err |-> NoErr]

\* Result: the writer, whether a (non-nil) layer writer is returned, the
\* layer it writes to, the number of calls of the factory, the error.
GetLayerWriter(c, layerHeight) ==
    IF ~c.enabled
    THEN [cw |-> c, writer |-> FALSE, layer |-> Nil, calls |-> 0, err |-> NoErr]
    ELSE IF layerHeight \notin DOMAIN c.layers /\ layerHeight \in c.policy
         THEN IF layerHeight \in c.factoryFails
              THEN [cw |-> c, writer |-> FALSE, layer |-> Nil, calls |-> 1,
                    err |-> "cannot create layer " \o ToString(layerHeight)]
              ELSE [cw |-> [c EXCEPT !.layers = (layerHeight :> <<>>) @@ @],
                    writer |-> TRUE, layer |-> <<>>, calls |-> 1, err |-> NoErr]
         ELSE [cw |-> c, writer |-> layerHeight \in DOMAIN c.layers,
               layer |-> IF layerHeight \in DOMAIN c.layers
                         THEN c.layers[layerHeight] ELSE Nil,
               calls |-> 0, err |-> NoErr]

\* --------------------------------------------------------------- the tree
\* layer: parking is the parked node, cache tells whether the layer has a
\* layer writer; the layer of height h is layers[h + 1] (baseLayer and its
\* next pointers).  added is a history counter: the nodes added to the layer.
newLayer(cache) == [parking |-> EmptyNode, cache |-> cache, added |-> 0]

NewSparseBoolStack(trueIndices) ==
    [sortedTrueIndices |-> trueIndices, currentIndex |-> 0]

\* sparseBoolStack.Pop: the popped flag and the stack after it.
Pop(s) ==
    IF Len(s.sortedTrueIndices) = 0
    THEN [ret |-> FALSE, s |-> s]
    ELSE LET ret == s.currentIndex = Head(s.sortedTrueIndices)
         IN  [ret |-> ret,
              s |-> [sortedTrueIndices |-> IF ret THEN Tail(s.sortedTrueIndices)
                                                   ELSE s.sortedTrueIndices,
                     currentIndex |-> s.currentIndex + 1]]

RECURSIVE SortedSeq(_)
\* Set.AsSortedSlice
SortedSeq(S) ==
    IF S = {} THEN <<>>
    ELSE LET m == CHOOSE x \in S : \A y \in S : x <= y
         IN  <<m>> \o SortedSeq(S \ {m})

\* TreeBuilder.Build: the tree and the cache writer it refers to.
Build(leavesToProve, cacheWriter, minHeight) ==
    LET w == GetLayerWriter(cacheWriter, 0)
    IN  [t |-> [layers |-> <<newLayer(w.writer)>>,
                proof |-> EmptySlice,
                leavesToProve |-> NewSparseBoolStack(SortedSeq(leavesToProve)),
                minHeight |-> minHeight],
         cw |-> w.cw,
         err |-> w.err]

\* A calcParent that takes the flag of the left child only.
calcParentLeftPath(lChild, rChild) ==
    [value |-> HashFunc(lChild.value, rChild.value),
     OnProvenPath |-> lChild.OnProvenPath]

calcParent(lChild, rChild) ==
    [value |-> HashFunc(lChild.value, rChild.value),
     OnProvenPath |-> lChild.OnProvenPath \/ rChild.OnProvenPath]

\* Appends that do not ask whether the parent is on a proven path.
EmitChildrenOfAnyParent(proof, parent, lChild, rChild) ==
    LET p1 == IF ~lChild.OnProvenPath THEN AppendSlice(proof, lChild.value) ELSE proof
    IN  IF ~rChild.OnProvenPath THEN AppendSlice(p1, rChild.value) ELSE p1

\* The two appends to a proof slice guarded by the children's flags.
EmitChildren(proof, parent, lChild, rChild) ==
    IF parent.OnProvenPath
    THEN LET p1 == IF ~lChild.OnProvenPath THEN AppendSlice(proof, lChild.value) ELSE proof
         IN  IF ~rChild.OnProvenPath THEN AppendSlice(p1, rChild.value) ELSE p1
    ELSE proof

\* An ensureNextLayerExists that makes a new layer whether or not the layer
\* has a next one.
ensureNextLayerAlwaysNew(t, c, h) ==
    LET w == GetLayerWriter(c, h + 1)
    IN  IF w.err # NoErr
        THEN [t |-> t, cw |-> w.cw, err |-> w.err]
        ELSE [t |-> [t EXCEPT !.layers = Append(@, newLayer(w.writer))],
              cw |-> w.cw, err |-> NoErr]

\* layer.ensureNextLayerExists for the layer of height h.
ensureNextLayerExists(t, c, h) ==
    IF Len(t.layers) = h + 1
    THEN LET w == GetLayerWriter(c, h + 1)
         IN  IF w.err # NoErr
             THEN [t |-> t, cw |-> w.cw, err |-> w.err]
             ELSE [t |-> [t EXCEPT !.layers = Append(@, newLayer(w.writer))],
                   cw |-> w.cw, err |-> NoErr]
    ELSE [t |-> t, cw |-> c, err |-> NoErr]

RECURSIVE AddLeafLoopKeepsParking(_, _, _, _, _)
\* An AddLeaf loop that leaves the left child parked after pairing it.
AddLeafLoopKeepsParking(t, c, n, h, lastCachingError) ==
    LET l == t.layers[h + 1]
        failed == l.cache /\ h \in c.appendFails
        c1 == IF l.cache /\ ~failed
              THEN [c EXCEPT !.layers[h] = Append(@, n.value)] ELSE c
        err1 == IF failed
                THEN "error while caching: append to layer " \o ToString(h)
                ELSE lastCachingError
        t1 == [t EXCEPT !.layers[h + 1].added = @ + 1]
    IN  IF IsEmpty(l.parking)
        THEN [t |-> [t1 EXCEPT !.layers[h + 1].parking = n], cw |-> c1, err |-> err1,
              aborted |-> FALSE]
        ELSE LET lChild == l.parking
                 rChild == n
                 parent == calcParent(lChild, rChild)
                 tp == [t1 EXCEPT !.proof = EmitChildren(@, parent, lChild, rChild)]
                 e == ensureNextLayerExists(tp, c1, h)
             IN  IF e.err # NoErr
                 THEN [t |-> e.t, cw |-> e.cw, err |-> e.err, aborted |-> TRUE]
                 ELSE AddLeafLoopKeepsParking(e.t, e.cw, parent, h + 1, err1)

RECURSIVE AddLeafLoopReturnsAppendError(_, _, _, _, _)
\* An AddLeaf loop that returns as soon as a cache append fails.
AddLeafLoopReturnsAppendError(t, c, n, h, lastCachingError) ==
    LET l == t.layers[h + 1]
        failed == l.cache /\ h \in c.appendFails
        c1 == IF l.cache /\ ~failed
              THEN [c EXCEPT !.layers[h] = Append(@, n.value)] ELSE c
        err1 == IF failed
                THEN "error while caching: append to layer " \o ToString(h)
                ELSE lastCachingError
        t1 == [t EXCEPT !.layers[h + 1].added = @ + 1]
    IN  IF failed
        THEN [t |-> t, cw |-> c, err |-> err1, aborted |-> FALSE]
        ELSE IF IsEmpty(l.parking)
        THEN [t |-> [t1 EXCEPT !.layers[h + 1].parking = n], cw |-> c1, err |-> err1,
              aborted |-> FALSE]
        ELSE LET lChild == l.parking
                 rChild == n
                 parent == calcParent(lChild, rChild)
                 tp == [t1 EXCEPT !.proof = EmitChildren(@, parent, lChild, rChild),
                                  !.layers[h + 1].parking.value = Nil]
                 e == ensureNextLayerExists(tp, c1, h)
             IN  IF e.err # NoErr
                 THEN [t |-> e.t, cw |-> e.cw, err |-> e.err, aborted |-> TRUE]
                 ELSE AddLeafLoopReturnsAppendError(e.t, e.cw, parent, h + 1, err1)

RECURSIVE AddLeafLoop(_, _, _, _, _)
\* One iteration of the loop of AddLeaf at the layer of height h, and the
\* iterations after it.
AddLeafLoop(t, c, n, h, lastCachingError) ==
    LET l == t.layers[h + 1]
        failed == l.cache /\ h \in c.appendFails
        c1 == IF l.cache /\ ~failed
              THEN [c EXCEPT !.layers[h] = Append(@, n.value)] ELSE c
        err1 == IF failed
                THEN "error while caching: append to layer " \o ToString(h)
                ELSE lastCachingError
        t1 == [t EXCEPT !.layers[h + 1].added = @ + 1]
    IN  IF IsEmpty(l.parking)
        THEN [t |-> [t1 EXCEPT !.layers[h + 1].parking = n], cw |-> c1, err |-> err1,
              aborted |-> FALSE]
        ELSE LET lChild == l.parking
                 rChild == n
                 parent == calcParent(lChild, rChild)
                 tp == [t1 EXCEPT !.proof = EmitChildren(@, parent, lChild, rChild),
                                  !.layers[h + 1].parking.value = Nil]
                 e == ensureNextLayerExists(tp, c1, h)
             IN  IF e.err # NoErr
                 THEN [t |-> e.t, cw |-> e.cw, err |-> e.err, aborted |-> TRUE]
                 ELSE AddLeafLoop(e.t, e.cw, parent, h + 1, err1)

\* Tree.AddLeaf: the tree, the cache writer and the returned error.
AddLeafOp(t, c, value) ==
    LET p == Pop(t.leavesToProve)
        n == [value |-> value, OnProvenPath |-> p.ret]
    IN  AddLeafLoop([t EXCEPT !.leavesToProve = p.s], c, n, 0, NoErr)

\* A calcEphemeralParent that promotes a lone ephemeral node unhashed.
calcEphemeralParentPromote(parking, ephemeralNode) ==
    IF ~IsEmpty(parking) /\ ~IsEmpty(ephemeralNode)
    THEN [parent |-> calcParent(parking, ephemeralNode),
          lChild |-> parking, rChild |-> ephemeralNode]
    ELSE IF ~IsEmpty(parking) /\ IsEmpty(ephemeralNode)
    THEN [parent |-> calcParent(parking, PaddingValue),
          lChild |-> parking, rChild |-> PaddingValue]
    ELSE IF IsEmpty(parking) /\ ~IsEmpty(ephemeralNode)
    THEN [parent |-> ephemeralNode, lChild |-> EmptyNode, rChild |-> EmptyNode]
    ELSE [parent |-> EmptyNode, lChild |-> EmptyNode, rChild |-> EmptyNode]

calcEphemeralParent(parking, ephemeralNode) ==
    IF ~IsEmpty(parking) /\ ~IsEmpty(ephemeralNode)
    THEN [parent |-> calcParent(parking, ephemeralNode),
          lChild |-> parking, rChild |-> ephemeralNode]
    ELSE IF ~IsEmpty(parking) /\ IsEmpty(ephemeralNode)
    THEN [parent |-> calcParent(parking, PaddingValue),
          lChild |-> parking, rChild |-> PaddingValue]
    ELSE IF IsEmpty(parking) /\ ~IsEmpty(ephemeralNode)
    THEN [parent |-> calcParent(ephemeralNode, PaddingValue),
          lChild |-> ephemeralNode, rChild |-> PaddingValue]
    ELSE [parent |-> EmptyNode, lChild |-> EmptyNode, rChild |-> EmptyNode]

\* ephemeralProof = append(ephemeralProof, x).  ep.shared tells whether
\* ephemeralProof still uses the backing array of t.proof, whose slots behind
\* len(t.proof) are ep.spare; ep.used of them lie below len(ephemeralProof).
AppendEphemeral(ep, x) ==
    IF ep.shared /\ ep.used < Len(ep.spare)
    THEN [ep EXCEPT !.elems = Append(@, x),
                    !.spare[ep.used + 1] = x,
                    !.used = @ + 1]
    ELSE [ep EXCEPT !.elems = Append(@, x), !.shared = FALSE]

EmitEphemeral(ep, parent, lChild, rChild) ==
    IF parent.OnProvenPath
    THEN LET p1 == IF ~lChild.OnProvenPath THEN AppendEphemeral(ep, lChild.value) ELSE ep
         IN  IF ~rChild.OnProvenPath THEN AppendEphemeral(p1, rChild.value) ELSE p1
    ELSE ep

RECURSIVE RootAndProofLoopIgnoresMinHeight(_, _, _, _)
\* The loop of RootAndProof run as if the minimum height were 0.
RootAndProofLoopIgnoresMinHeight(t, height, ephemeralNode, ep) ==
    LET exists == height < Len(t.layers)
    IN  IF ~exists
        THEN [root |-> ephemeralNode.value, ep |-> ep]
        ELSE LET onLastLayer == height + 1 = Len(t.layers)
             IN  IF onLastLayer /\ IsEmpty(ephemeralNode)
                 THEN [root |-> t.layers[height + 1].parking.value, ep |-> ep]
                 ELSE LET r == calcEphemeralParent(t.layers[height + 1].parking,
                                                   ephemeralNode)
                      IN  RootAndProofLoopIgnoresMinHeight(t, height + 1, r.parent,
                              EmitEphemeral(ep, r.parent, r.lChild, r.rChild))

RECURSIVE RootAndProofLoop(_, _, _, _)
\* The loop of RootAndProof from the iteration of the given height on.
RootAndProofLoop(t, height, ephemeralNode, ep) ==
    LET exists == height < Len(t.layers)
    IN  IF ~(height < t.minHeight \/ exists)
        THEN [root |-> ephemeralNode.value, ep |-> ep]
        ELSE LET reachedMinHeight == height >= t.minHeight
                 onLastLayer == exists /\ height + 1 = Len(t.layers)
             IN  IF reachedMinHeight /\ onLastLayer /\ IsEmpty(ephemeralNode)
                 THEN [root |-> t.layers[height + 1].parking.value, ep |-> ep]
                 ELSE LET parking == IF exists THEN t.layers[height + 1].parking
                                               ELSE EmptyNode
                          r == calcEphemeralParent(parking, ephemeralNode)
                      IN  RootAndProofLoop(t, height + 1, r.parent,
                              EmitEphemeral(ep, r.parent, r.lChild, r.rChild))

\* A RootAndProof that keeps the ephemeral proof as the proof of the tree.
RootAndProofKeepsEphemeral(t) ==
    LET r == RootAndProofLoop(t, 0, EmptyNode,
                 [elems |-> t.proof.elems, spare |-> t.proof.spare,
                  used |-> 0, shared |-> TRUE])
    IN  [t |-> [t EXCEPT !.proof = [elems |-> r.ep.elems, spare |-> <<>>]],
         root |-> r.root, proof |-> r.ep.elems]

\* Tree.RootAndProof: the tree after the call (ephemeralProof starts as
\* t.proof, so its appends write the array slots behind len(t.proof)), the
\* root and the proof.
RootAndProofOp(t) ==
    LET r == RootAndProofLoop(t, 0, EmptyNode,
                 [elems |-> t.proof.elems, spare |-> t.proof.spare,
                  used |-> 0, shared |-> TRUE])
    IN  [t |-> [t EXCEPT !.proof.spare = r.ep.spare],
         root |-> r.root, proof |-> r.ep.elems]

\* A GetParkedNodes that leaves out the layers with nothing parked.
GetParkedNodesSkipsEmpty(t) ==
    LET held == {i \in 1..Len(t.layers) : ~IsEmpty(t.layers[i].parking)}
    IN  [k \in 1..Cardinality(held) |->
            t.layers[CHOOSE i \in held :
                         Cardinality({j \in held : j < i}) = k - 1].parking.value]

\* Tree.GetParkedNodes
GetParkedNodesOp(t) == [i \in 1..Len(t.layers) |-> t.layers[i].parking.value]

RECURSIVE SetParkedNodesLoop(_, _, _, _)
SetParkedNodesLoop(t, c, nodes, i) ==
    IF i >= Len(nodes)
    THEN [t |-> t, cw |-> c, err |-> NoErr]
    ELSE LET t1 == IF nodes[i + 1] # Nil
                   THEN [t EXCEPT !.layers[i + 1].parking.value = nodes[i + 1]]
                   ELSE t
         IN  IF i < Len(nodes) - 1
             THEN LET e == ensureNextLayerExists(t1, c, i)
                  IN  IF e.err # NoErr
                      THEN [t |-> e.t, cw |-> e.cw, err |-> e.err]
                      ELSE SetParkedNodesLoop(e.t, e.cw, nodes, i + 1)
             ELSE SetParkedNodesLoop(t1, c, nodes, i + 1)

\* Tree.SetParkedNodes
SetParkedNodesOp(t, c, nodes) == SetParkedNodesLoop(t, c, nodes, 0)

\* --------------------------------------------------------------- positions
Position(index, height) == [Index |-> index, Height |-> height]

sibling(p) == Position(IF p.Index % 2 = 0 THEN p.Index + 1 ELSE p.Index - 1, p.Height)

\* isAncestorOf with the height test off by one.
isAncestorOfStrictlyHigher(p, other) ==
    IF p.Height <= other.Height
    THEN FALSE
    ELSE p.Index = other.Index \div Pow2(p.Height - other.Height)

isAncestorOf(p, other) ==
    IF p.Height < other.Height
    THEN FALSE
    ELSE p.Index = other.Index \div Pow2(p.Height - other.Height)

isRightSibling(p) == p.Index % 2 = 1

parent(p) == Position(p.Index \div 2, p.Height + 1)

leftChild(p) == Position(p.Index * 2, p.Height - 1)

\* -------------------------------------------------------------- validation
noMoreItems == "no more items"

\* ^uint(0); heights of the model stay far below it.
MaxUint == 2147483647

\* sort.SliceIsSorted with the less function of newValidator.
SliceIsSorted(s) == \A i \in 2..Len(s) : ~(s[i] < s[i - 1])

SetOf(s) == {s[i] : i \in 1..Len(s)}

\* newValidator without its check for repeated indices.
newValidatorAllowsDuplicates(leafIndices, leaves, proof, storeSnapshots) ==
    IF Len(leafIndices) # Len(leaves)
    THEN [err |-> "number of leaves (" \o ToString(Len(leaves))
                  \o ") must equal number of indices ("
                  \o ToString(Len(leafIndices)) \o ")"]
    ELSE IF Len(leaves) = 0
    THEN [err |-> "at least one leaf is required for validation"]
    ELSE IF ~SliceIsSorted(leafIndices)
    THEN [err |-> "leafIndices are not sorted"]
    ELSE [err |-> NoErr,
          v |-> [indices |-> leafIndices, leaves |-> leaves, ProofNodes |-> proof,
                 StoreSnapshots |-> storeSnapshots, hashes |-> 0]]

\* newValidator: the validator (what its two iterators hold, and the number
\* of calls of the hash function it has made so far), or the error.
newValidator(leafIndices, leaves, proof, storeSnapshots) ==
    IF Len(leafIndices) # Len(leaves)
    THEN [err |-> "number of leaves (" \o ToString(Len(leaves))
                  \o ") must equal number of indices ("
                  \o ToString(Len(leafIndices)) \o ")"]
    ELSE IF Len(leaves) = 0
    THEN [err |-> "at least one leaf is required for validation"]
    ELSE IF ~SliceIsSorted(leafIndices)
    THEN [err |-> "leafIndices are not sorted"]
    ELSE IF Cardinality(SetOf(leafIndices)) # Len(leafIndices)
    THEN [err |-> "leafIndices contain duplicates"]
    ELSE [err |-> NoErr,
          v |-> [indices |-> leafIndices, leaves |-> leaves, ProofNodes |-> proof,
                 StoreSnapshots |-> storeSnapshots, hashes |-> 0]]

\* addToAll appending to the first snapshot only.
addToFirst(snapshots, node) ==
    [i \in 1..Len(snapshots) |->
       IF i = 1 THEN Append(snapshots[i], node) ELSE snapshots[i]]

\* addToAll: node appended to every snapshot.
addToAll(snapshots, node) ==
    [i \in 1..Len(snapshots) |-> Append(snapshots[i], node)]

RECURSIVE CalcRoot(_, _)
RECURSIVE CalcRootLoop(_, _, _, _, _, _)
\* The loop of Validator.CalcRoot; v holds what the iterators have left.
CalcRootLoop(v, activePos, activeNode, stopAtLayer, parkingSnapshots, subTreeSnapshots) ==
    IF activePos.Height = stopAtLayer
    THEN [root |-> activeNode, parkingSnapshots |-> parkingSnapshots,
          v |-> v, err |-> NoErr]
    ELSE LET calcSibling ==
                 /\ Len(v.indices) > 0
                 /\ isAncestorOf(sibling(activePos), Position(Head(v.indices), 0))
         IN  With(IF calcSibling THEN CalcRoot(v, activePos.Height)
                  ELSE [root |-> Nil, parkingSnapshots |-> <<>>, v |-> v,
                        err |-> NoErr],
                  LAMBDA sub :
             LET exhausted == ~calcSibling /\ Len(v.ProofNodes) = 0
                 sib == IF calcSibling THEN sub.root ELSE Head(v.ProofNodes)
                 v1 == IF calcSibling THEN sub.v
                       ELSE [v EXCEPT !.ProofNodes = Tail(@)]
                 sts == IF calcSibling THEN sub.parkingSnapshots
                        ELSE subTreeSnapshots
                 right == isRightSibling(activePos)
                 lChild == IF right THEN sib ELSE activeNode
                 rChild == IF right THEN activeNode ELSE sib
                 ps == IF right THEN addToAll(parkingSnapshots, lChild)
                       ELSE IF Len(sts) > 0
                       THEN addToAll(parkingSnapshots, Nil)
                            \o addToAll(sts, activeNode)
                       ELSE addToAll(parkingSnapshots, Nil)
                 sts1 == IF ~right /\ Len(sts) > 0 THEN <<>> ELSE sts
             IN  IF calcSibling /\ sub.err # NoErr
                 THEN [root |-> Nil, parkingSnapshots |-> <<>>, v |-> sub.v,
                       err |-> sub.err]
                 ELSE IF exhausted
                 THEN [root |-> activeNode, parkingSnapshots |-> parkingSnapshots,
                       v |-> v, err |-> NoErr]
                 ELSE CalcRootLoop([v1 EXCEPT !.hashes = @ + 1],
                                   parent(activePos), HashFunc(lChild, rChild),
                                   stopAtLayer, ps, sts1))

\* Validator.CalcRoot
CalcRoot(v, stopAtLayer) ==
    IF Len(v.indices) = 0
    THEN [root |-> Nil, parkingSnapshots |-> <<>>, v |-> v, err |-> noMoreItems]
    ELSE CalcRootLoop([v EXCEPT !.indices = Tail(@), !.leaves = Tail(@)],
                      Position(Head(v.indices), 0), Head(v.leaves), stopAtLayer,
                      IF v.StoreSnapshots THEN << <<>> >> ELSE <<>>, <<>>)

\* A ValidatePartialTree that accepts whenever CalcRoot returns no error.
ValidatePartialTreeAcceptsOnNoError(leafIndices, leaves, proof, expectedRoot) ==
    LET nv == newValidator(leafIndices, leaves, proof, FALSE)
        r == CalcRoot(nv.v, MaxUint)
    IN  IF nv.err # NoErr
        THEN [valid |-> FALSE, err |-> nv.err, hashes |-> 0]
        ELSE [valid |-> r.err = NoErr, err |-> r.err, hashes |-> r.v.hashes]

\* ValidatePartialTree: the two results, and the number of calls of the hash
\* function made.
ValidatePartialTree(leafIndices, leaves, proof, expectedRoot) ==
    LET nv == newValidator(leafIndices, leaves, proof, FALSE)
        r == CalcRoot(nv.v, MaxUint)
    IN  IF nv.err # NoErr
        THEN [valid |-> FALSE, err |-> nv.err, hashes |-> 0]
        ELSE [valid |-> r.root = expectedRoot, err |-> r.err,
              hashes |-> r.v.hashes]

\* ValidatePartialTreeWithParkingSnapshots: the three results, and the number
\* of calls of the hash function made.
ValidatePartialTreeWithParkingSnapshots(leafIndices, leaves, proof, expectedRoot) ==
    LET nv == newValidator(leafIndices, leaves, proof, TRUE)
        r == CalcRoot(nv.v, MaxUint)
    IN  IF nv.err # NoErr
        THEN [valid |-> FALSE, parkingSnapshots |-> <<>>, err |-> nv.err,
              hashes |-> 0]
        ELSE [valid |-> r.root = expectedRoot,
              parkingSnapshots |-> r.parkingSnapshots, err |-> r.err,
              hashes |-> r.v.hashes]

\* ------------------------------------------------------------ cache reader
ErrMissingValueAtBaseLayer == "reader for base layer must be included"

EOF == "EOF"

\* A nil layer reader is dereferenced: the call does not return.
NilReaderPanic == "panic: invalid memory address or nil pointer dereference"

\* The operations of the layer readers that fail: <<op, height>> when the op
\* of the reader of the layer of that height returns SomeError instead of
\* doing its work.
VARIABLE faults

\* The error a failing layer returns from Seek, ReadNext or Width.
SomeError == "some error"

SeekFails(height) == <<"Seek", height>> \in faults

ReadNextFails(height) == <<"ReadNext", height>> \in faults

WidthFails(height) == <<"Width", height>> \in faults

RECURSIVE validateLoopRoundsUp(_, _, _, _)
\* The loop of validateStructure with the expected width halved rounding up.
validateLoopRoundsUp(layers, i, height, width) ==
    IF i >= height THEN NoErr
    ELSE IF i \in DOMAIN layers /\ WidthFails(i)
    THEN "failed to get width for layer " \o ToString(i) \o ": " \o SomeError
    ELSE IF i \in DOMAIN layers /\ Len(layers[i]) # width
    THEN "reader at layer " \o ToString(i) \o " has width "
         \o ToString(Len(layers[i])) \o " instead of " \o ToString(width)
    ELSE validateLoopRoundsUp(layers, i + 1, height, (width + 1) \div 2)

RECURSIVE validateLoop(_, _, _, _)
\* The loop of validateStructure from layer i on.
validateLoop(layers, i, height, width) ==
    IF i >= height THEN NoErr
    ELSE IF i \in DOMAIN layers /\ WidthFails(i)
    THEN "failed to get width for layer " \o ToString(i) \o ": " \o SomeError
    ELSE IF i \in DOMAIN layers /\ Len(layers[i]) # width
    THEN "reader at layer " \o ToString(i) \o " has width "
         \o ToString(Len(layers[i])) \o " instead of " \o ToString(width)
    ELSE validateLoop(layers, i + 1, height, width \div 2)

\* validateStructure without its loop over the layers above the base layer.
validateStructureBaseOnly(layers) ==
    IF 0 \notin DOMAIN layers THEN "reader for base layer must be included"
    ELSE IF WidthFails(0) THEN "while getting base layer width: " \o SomeError
    ELSE IF Len(layers[0]) = 0 THEN "base layer cannot be empty"
    ELSE NoErr

\* cache.validateStructure
validateStructure(layers) ==
    IF 0 \notin DOMAIN layers THEN "reader for base layer must be included"
    ELSE IF WidthFails(0) THEN "while getting base layer width: " \o SomeError
    ELSE IF Len(layers[0]) = 0 THEN "base layer cannot be empty"
    ELSE validateLoop(layers, 0, RootHeightFromWidth(Len(layers[0])), Len(layers[0]))

\* Writer.GetReader: the error, and whether a (non-nil) reader is returned;
\* the reader is a view of the layers of the writer.
GetReaderOp(c) ==
    IF ~c.enabled THEN [err |-> NoErr, reader |-> FALSE]
    ELSE LET e == validateStructure(c.layers)
         IN  [err |-> e, reader |-> e = NoErr]

\* The layer of height h returns SomeError from Flush.
FlushFails(height) == <<"Flush", height>> \in faults

RECURSIVE flushLoop(_, _, _)
\* The loop of Writer.flush over the layers in the order the map is ranged
\* over: lastErr is assigned in every iteration.
flushLoop(order, i, lastErr) ==
    IF i > Len(order) THEN lastErr
    ELSE flushLoop(order, i + 1, IF FlushFails(order[i]) THEN SomeError ELSE NoErr)

\* Writer.flush, the layers ranged over in the given order.
flush(c, order) == flushLoop(order, 1, NoErr)

\* Writer.GetReader with the flush of the layers, ranged over in the given
\* order, ahead of validateStructure.
GetReaderFlushing(c, order) ==
    LET e == flush(c, order)
    IN  IF e # NoErr THEN [err |-> e, reader |-> FALSE]
        ELSE LET v == validateStructure(c.layers)
             IN  [err |-> v, reader |-> v = NoErr]

\* ------------------------------------------------------- proof generation
RECURSIVE traverseLoopKeepsPadding(_, _, _, _, _, _, _, _)
\* A loop of traverseSubtree that never clears shouldUseExternalPadding.
traverseLoopKeepsPadding(data, pos, width, leavesToProve, b, i, usePadding, externalPadding) ==
    IF i >= width THEN b
    ELSE LET eof == pos >= Len(data)
         IN  IF eof /\ ~usePadding
             THEN [b EXCEPT !.log = Append(@, [eof |-> TRUE, added |-> <<>>])]
             ELSE LET leaf == IF eof THEN externalPadding ELSE data[pos + 1]
                      a == AddLeafOp(b.t, disabledCacheWriter, leaf)
                  IN  traverseLoopKeepsPadding(data, IF eof THEN pos ELSE pos + 1, width,
                          leavesToProve,
                          [t |-> a.t,
                           provenLeaves |-> IF i \in leavesToProve
                                            THEN Append(b.provenLeaves, leaf)
                                            ELSE b.provenLeaves,
                           log |-> Append(b.log, [eof |-> eof, added |-> <<leaf>>])],
                          i + 1, usePadding, externalPadding)

RECURSIVE traverseLoop(_, _, _, _, _, _, _, _)
\* The loop of traverseSubtree from iteration i on: data are the nodes of the
\* layer read, pos the position of its reader, b the local tree.  In b, log
\* is a history of the iterations: whether ReadNext returned io.EOF, and
\* the leaf added to the local tree, if any.
traverseLoop(data, pos, width, leavesToProve, b, i, usePadding, externalPadding) ==
    IF i >= width THEN b
    ELSE LET eof == pos >= Len(data)
         IN  IF eof /\ ~usePadding
             THEN [b EXCEPT !.log = Append(@, [eof |-> TRUE, added |-> <<>>])]
             ELSE LET leaf == IF eof THEN externalPadding ELSE data[pos + 1]
                      a == AddLeafOp(b.t, disabledCacheWriter, leaf)
                  IN  traverseLoop(data, IF eof THEN pos ELSE pos + 1, width,
                          leavesToProve,
                          [t |-> a.t,
                           provenLeaves |-> IF i \in leavesToProve
                                            THEN Append(b.provenLeaves, leaf)
                                            ELSE b.provenLeaves,
                           log |-> Append(b.log, [eof |-> eof, added |-> <<leaf>>])],
                          i + 1, usePadding /\ ~eof, externalPadding)

\* traverseSubtree, reading the layer from position pos.
traverseSubtree(data, pos, width, leavesToProve, externalPadding) ==
    LET b0 == Build(leavesToProve, disabledCacheWriter, RootHeightFromWidth(width))
    IN  With(traverseLoop(data, pos, width, leavesToProve,
                          [t |-> b0.t, provenLeaves |-> <<>>, log |-> <<>>], 0,
                          externalPadding # Nil, externalPadding),
             LAMBDA b :
                 With(RootAndProofOp(b.t),
                      LAMBDA r : [root |-> r.root, proof |-> r.proof,
                                  provenLeaves |-> b.provenLeaves, err |-> NoErr,
                                  log |-> b.log]))

RECURSIVE Binary(_)
\* fmt's %b of an unsigned integer.
Binary(n) == IF n < 2 THEN ToString(n) ELSE Binary(n \div 2) \o ToString(n % 2)

\* Position.String
PositionString(p) == "<h: " \o ToString(p.Height) \o " i: " \o Binary(p.Index) \o ">"

SeekingError(p) ==
    "while seeking to Position " \o PositionString(p) \o " in cache: " \o SomeError

RECURSIVE calcNode(_, _)
RECURSIVE calcNodeDescend(_, _, _)
\* The descent of calcNode from subtreeStart to a layer that holds the
\* position, and the computation from there.  In the result, failed is a
\* history flag: an operation of a layer failed during the call.
calcNodeDescend(layers, nodePos, from) ==
    LET subtreeStart == leftChild(from)
    IN  IF subtreeStart.Height \notin DOMAIN layers
        THEN [val |-> Nil, err |-> NilReaderPanic, failed |-> FALSE]
        ELSE IF SeekFails(subtreeStart.Height)
        THEN [val |-> Nil, err |-> SeekingError(subtreeStart), failed |-> TRUE]
        ELSE IF subtreeStart.Index >= Len(layers[subtreeStart.Height])
        THEN IF subtreeStart.Height = 0
             THEN [val |-> PaddingValue.value, err |-> NoErr, failed |-> FALSE]
             ELSE calcNodeDescend(layers, nodePos, subtreeStart)
        ELSE IF WidthFails(subtreeStart.Height)
        THEN [val |-> Nil, err |-> "while getting reader width: " \o SomeError,
              failed |-> TRUE]
        ELSE LET data == layers[subtreeStart.Height]
                 width == Pow2(nodePos.Height - subtreeStart.Height)
                 readerWidth == Len(data)
                 needsPadding == readerWidth < subtreeStart.Index + width
                 paddingPos == Position(readerWidth, subtreeStart.Height)
                 pad == calcNode(layers, paddingPos)
                 paddingValue == IF ~needsPadding THEN Nil
                                 ELSE IF pad.err = ErrMissingValueAtBaseLayer
                                 THEN PaddingValue.value
                                 ELSE pad.val
             IN  IF needsPadding /\ pad.err = NilReaderPanic
                 THEN pad
                 ELSE IF needsPadding /\ pad.err \notin {NoErr, ErrMissingValueAtBaseLayer}
                 THEN [val |-> Nil,
                       err |-> "while calculating ephemeral node at Position "
                               \o PositionString(paddingPos) \o ": " \o pad.err,
                       failed |-> pad.failed]
                 ELSE IF ReadNextFails(subtreeStart.Height)
                 THEN [val |-> Nil,
                       err |-> "while traversing subtree for root: while reading a leaf: "
                               \o SomeError,
                       failed |-> TRUE]
                 ELSE [val |-> traverseSubtree(data, subtreeStart.Index, width, {},
                                               paddingValue).root,
                       err |-> NoErr,
                       failed |-> needsPadding /\ pad.failed]

calcNode(layers, nodePos) ==
    IF nodePos.Height = 0
    THEN [val |-> Nil, err |-> ErrMissingValueAtBaseLayer, failed |-> FALSE]
    ELSE calcNodeDescend(layers, nodePos, nodePos)

\* A GetNode that computes the node from the layers below whenever the Seek
\* on its layer fails, whatever the error.
GetNodeComputesOnAnySeekError(layers, nodePos) ==
    IF nodePos.Height \notin DOMAIN layers
    THEN calcNode(layers, nodePos)
    ELSE IF SeekFails(nodePos.Height)
    THEN [calcNode(layers, nodePos) EXCEPT !.failed = TRUE]
    ELSE IF nodePos.Index >= Len(layers[nodePos.Height])
    THEN calcNode(layers, nodePos)
    ELSE IF ReadNextFails(nodePos.Height)
    THEN [val |-> Nil, err |-> "while reading from cache: " \o SomeError,
          failed |-> TRUE]
    ELSE [val |-> layers[nodePos.Height][nodePos.Index + 1], err |-> NoErr,
          failed |-> FALSE]

\* GetNode
GetNode(layers, nodePos) ==
    IF nodePos.Height \notin DOMAIN layers
    THEN calcNode(layers, nodePos)
    ELSE IF SeekFails(nodePos.Height)
    THEN [val |-> Nil, err |-> SeekingError(nodePos), failed |-> TRUE]
    ELSE IF nodePos.Index >= Len(layers[nodePos.Height])
    THEN calcNode(layers, nodePos)
    ELSE IF ReadNextFails(nodePos.Height)
    THEN [val |-> Nil, err |-> "while reading from cache: " \o SomeError,
          failed |-> TRUE]
    ELSE [val |-> layers[nodePos.Height][nodePos.Index + 1], err |-> NoErr,
          failed |-> FALSE]

RECURSIVE subtreeRoot(_, _, _)
\* The loop of subtreeDefinition: the first position from root upwards that
\* lies on a cached layer or at maxRootHeight.
subtreeRoot(layers, root, maxRootHeight) ==
    IF root.Height < maxRootHeight /\ root.Height \notin DOMAIN layers
    THEN subtreeRoot(layers, parent(root), maxRootHeight)
    ELSE root

\* subtreeDefinition
subtreeDefinition(layers, p) ==
    LET width == Len(layers[p.Height])
        maxRootHeight == RootHeightFromWidth(width)
        root == IF ~(p.Height = 0 /\ width = 1)
                THEN subtreeRoot(layers, parent(p), maxRootHeight)
                ELSE p
        subtreeHeight == root.Height - p.Height
    IN  IF WidthFails(p.Height)
        THEN [root |-> Position(0, 0), firstLeaf |-> Position(0, 0), width |-> 0,
              err |-> SomeError]
        ELSE [root |-> root,
              firstLeaf |-> Position(root.Index * Pow2(subtreeHeight), p.Height),
              width |-> Pow2(subtreeHeight),
              err |-> NoErr]

\* A batchPop that pops the first index only.
batchPopFirst(s, endIndex) ==
    IF Len(s) > 0 /\ s[1] < endIndex
    THEN [res |-> {s[1]}, s |-> Tail(s)]
    ELSE [res |-> {}, s |-> s]

\* positionsIterator.batchPop: the popped set and the indices left.
batchPop(s, endIndex) ==
    [res |-> {s[i] : i \in {j \in 1..Len(s) : \A k \in 1..j : s[k] < endIndex}},
     s |-> SubSeq(s, Cardinality({j \in 1..Len(s) : \A k \in 1..j : s[k] < endIndex}) + 1,
                  Len(s))]

\* calcSubtreeProof
calcSubtreeProof(layers, leavesToProve, subtreeStart, width) ==
    LET relativeLeavesToProve == {i - subtreeStart.Index : i \in leavesToProve}
    IN  IF SeekFails(0)
        THEN [err |-> "while preparing to traverse subtree: " \o SomeError,
              failed |-> TRUE]
        ELSE IF subtreeStart.Index >= Len(layers[0])
        THEN [err |-> "while preparing to traverse subtree: " \o EOF,
              failed |-> FALSE]
        ELSE IF ReadNextFails(0)
        THEN [err |-> "while traversing subtree: while reading a leaf: " \o SomeError,
              failed |-> TRUE]
        ELSE traverseSubtree(layers[0], subtreeStart.Index, width,
                             relativeLeavesToProve, Nil)

RECURSIVE GenerateProofLoop(_, _, _)
RECURSIVE GenerateProofAscend(_, _, _, _)
\* The inner loop of GenerateProof at currentPos; g holds the iterator (it),
\* skipPositions, provenLeaves and proofNodes, the history flag failed and
\* the history groups: per subtree, its first leaf and width, the indices
\* the iterator held and the set batchPop returned.
GenerateProofAscend(layers, rootHeight, g, currentPos) ==
    IF ~(currentPos.Height < rootHeight)
    THEN GenerateProofLoop(layers, rootHeight, g)
    ELSE IF Len(g.skipPositions) > 0 /\ g.skipPositions[Len(g.skipPositions)] = currentPos
    THEN GenerateProofAscend(layers, rootHeight,
             [g EXCEPT !.skipPositions = SubSeq(@, 1, Len(@) - 1)], parent(currentPos))
    ELSE IF Len(g.it) > 0 /\ isAncestorOf(sibling(currentPos), Position(Head(g.it), 0))
    THEN GenerateProofLoop(layers, rootHeight,
             [g EXCEPT !.skipPositions = Append(@, sibling(currentPos))])
    ELSE With(GetNode(layers, sibling(currentPos)),
              LAMBDA n :
                  IF n.err # NoErr
                  THEN [err |-> n.err, failed |-> n.failed, groups |-> g.groups]
                  ELSE GenerateProofAscend(layers, rootHeight,
                           [g EXCEPT !.proofNodes = Append(@, n.val),
                                     !.failed = @ \/ n.failed],
                           parent(currentPos)))

\* The outer loop of GenerateProof.
GenerateProofLoop(layers, rootHeight, g) ==
    IF Len(g.it) = 0
    THEN [err |-> NoErr, provenLeaves |-> g.provenLeaves,
          proofNodes |-> g.proofNodes, failed |-> g.failed, groups |-> g.groups]
    ELSE LET d == subtreeDefinition(layers, Position(Head(g.it), 0))
             bp == batchPop(g.it, d.firstLeaf.Index + d.width)
             groups == Append(g.groups, [firstLeaf |-> d.firstLeaf.Index,
                                         width |-> d.width, it |-> g.it,
                                         leavesToProve |-> bp.res])
         IN  IF d.err # NoErr
             THEN [err |-> d.err, failed |-> TRUE, groups |-> g.groups]
             ELSE With(calcSubtreeProof(layers, bp.res, d.firstLeaf, d.width),
                  LAMBDA sp :
                      IF sp.err # NoErr
                      THEN [err |-> sp.err, failed |-> sp.failed, groups |-> groups]
                      ELSE GenerateProofAscend(layers, rootHeight,
                               [g EXCEPT !.it = bp.s,
                                         !.groups = groups,
                                         !.proofNodes = @ \o sp.proof,
                                         !.provenLeaves = @ \o sp.provenLeaves],
                               d.root))

\* GenerateProof on the reader of a cache with the given layers.
GenerateProofOp(provenLeafIndices, layers) ==
    IF WidthFails(0)
    THEN [err |-> SomeError, sortedProvenLeafIndices |-> <<>>,
          provenLeaves |-> <<>>, proofNodes |-> <<>>, failed |-> TRUE,
          groups |-> <<>>]
    ELSE
    With(GenerateProofLoop(layers, RootHeightFromWidth(Len(layers[0])),
             [it |-> SortedSeq(provenLeafIndices), skipPositions |-> <<>>,
              provenLeaves |-> <<>>, proofNodes |-> <<>>, failed |-> FALSE,
              groups |-> <<>>]),
         LAMBDA r :
             IF r.err # NoErr
             THEN [err |-> r.err, sortedProvenLeafIndices |-> <<>>,
                   provenLeaves |-> <<>>, proofNodes |-> <<>>,
                   failed |-> r.failed, groups |-> r.groups]
             ELSE [err |-> NoErr,
                   sortedProvenLeafIndices |-> SortedSeq(provenLeafIndices),
                   provenLeaves |-> r.provenLeaves, proofNodes |-> r.proofNodes,
                   failed |-> r.failed, groups |-> r.groups])

\* ------------------------------------------------------ layer read-writers
\* A layer is a record with a kind: a SliceReadWriter (slice, position), a
\* FileReadWriter (f: the nodes in the file, offset: the file offset in
\* nodes, w and r: the nodes in the write buffer and in the read buffer of
\* the bufio.ReadWriter), or a GroupLayerReadWriter (chunks, activeChunkIndex,
\* widthPerChunk, lastChunkWidth).
NoLayer == [kind |-> "none"]

\* &SliceReadWriter{}
NewSliceReadWriter == [kind |-> "slice", slice |-> <<>>, position |-> 0]

\* NewFileReadWriter(filename) on a file that does not exist yet.
NewFileReadWriter ==
    [kind |-> "file", f |-> <<>>, offset |-> 0, w |-> <<>>, r |-> <<>>]

\* The nodes a bufio buffer holds (4096 bytes of 32-byte nodes).
BufferNodes == 128

NotImplemented == "panic: not implemented"

Min(a, b) == IF a < b THEN a ELSE b

\* The file after data is written at offset: a gap behind the old end of the
\* file reads as zero bytes.
WriteAt(f, offset, data) ==
    LET end == IF offset + Len(data) > Len(f) THEN offset + Len(data) ELSE Len(f)
    IN  [k \in 1..end |->
           IF k > offset /\ k <= offset + Len(data) THEN data[k - offset]
           ELSE IF k <= Len(f) THEN f[k]
           ELSE <<0>>]

\* bufio.Writer.Flush of a FileReadWriter: the write buffer goes to the file
\* at the file offset.
FlushWriter(l) ==
    IF Len(l.w) = 0 THEN l
    ELSE [l EXCEPT !.f = WriteAt(l.f, l.offset, l.w),
                   !.offset = @ + Len(l.w),
                   !.w = <<>>]

\* Width()
WidthOp(l) ==
    IF l.kind = "slice" THEN Len(l.slice)
    ELSE IF l.kind = "file" THEN Len(l.f)
    ELSE (Len(l.chunks) - 1) * l.widthPerChunk + l.lastChunkWidth

RECURSIVE SeekOp(_, _)
RECURSIVE ResetChunks(_, _, _)
\* The loop of GroupLayerReadWriter.Seek over the chunks from chunk i on:
\* every chunk but chunkIndex is sought to 0, up to the first failure.
ResetChunks(chunks, i, chunkIndex) ==
    IF i >= Len(chunks) THEN [chunks |-> chunks, err |-> NoErr]
    ELSE IF i = chunkIndex THEN ResetChunks(chunks, i + 1, chunkIndex)
    ELSE LET r == SeekOp(chunks[i + 1], 0)
         IN  IF r.err # NoErr
             THEN [chunks |-> [chunks EXCEPT ![i + 1] = r.layer], err |-> r.err]
             ELSE ResetChunks([chunks EXCEPT ![i + 1] = r.layer], i + 1,
                              chunkIndex)

\* FileReadWriter.Seek: the file is sought (to any offset) and the read
\* buffer is reset.
FileSeek(l, index) ==
    [layer |-> [l EXCEPT !.offset = index, !.r = <<>>], err |-> NoErr]

\* Seek(index): the layer after the call and the error.
SeekOp(l, index) ==
    IF l.kind = "slice"
    THEN IF index >= Len(l.slice) THEN [layer |-> l, err |-> EOF]
         ELSE [layer |-> [l EXCEPT !.position = index], err |-> NoErr]
    ELSE IF l.kind = "file" THEN FileSeek(l, index)
    ELSE LET chunkIndex == index \div l.widthPerChunk
         IN  IF chunkIndex >= Len(l.chunks) THEN [layer |-> l, err |-> EOF]
             ELSE With(IF chunkIndex # l.activeChunkIndex
                       THEN ResetChunks(l.chunks, 0, chunkIndex)
                       ELSE [chunks |-> l.chunks, err |-> NoErr],
                       LAMBDA reset :
                  IF reset.err # NoErr
                  THEN [layer |-> [l EXCEPT !.chunks = reset.chunks],
                        err |-> reset.err]
                  ELSE With(SeekOp(reset.chunks[chunkIndex + 1],
                                   index % l.widthPerChunk),
                            LAMBDA r :
                       [layer |-> [l EXCEPT
                                     !.chunks = [reset.chunks EXCEPT
                                                   ![chunkIndex + 1] = r.layer],
                                     !.activeChunkIndex = chunkIndex],
                        err |-> r.err]))

RECURSIVE ReadNextOp(_)
\* ReadNext(): the layer after the call, the node and the error.
ReadNextOp(l) ==
    IF l.kind = "slice"
    THEN IF l.position >= Len(l.slice)
         THEN [layer |-> l, value |-> Nil, err |-> EOF]
         ELSE [layer |-> [l EXCEPT !.position = @ + 1],
               value |-> l.slice[l.position + 1], err |-> NoErr]
    ELSE IF l.kind = "file"
    THEN IF Len(l.r) > 0
         THEN [layer |-> [l EXCEPT !.r = Tail(@)], value |-> Head(l.r),
               err |-> NoErr]
         ELSE LET read == SubSeq(l.f, l.offset + 1,
                                 Min(Len(l.f), l.offset + BufferNodes))
              IN  IF Len(read) = 0
                  THEN [layer |-> l, value |-> Nil, err |-> EOF]
                  ELSE [layer |-> [l EXCEPT !.r = Tail(read),
                                            !.offset = @ + Len(read)],
                        value |-> Head(read), err |-> NoErr]
    ELSE With(ReadNextOp(l.chunks[l.activeChunkIndex + 1]), LAMBDA r :
         LET l1 == [l EXCEPT !.chunks[l.activeChunkIndex + 1] = r.layer]
         IN  IF r.err = EOF /\ l.activeChunkIndex < Len(l.chunks) - 1
             THEN ReadNextOp([l1 EXCEPT !.activeChunkIndex = @ + 1])
             ELSE [layer |-> l1, value |-> r.value, err |-> r.err])

\* Append(p): the layer after the call and the error.
AppendOp(l, p) ==
    IF l.kind = "slice"
    THEN [layer |-> [l EXCEPT !.slice = Append(@, p)], err |-> NoErr]
    ELSE IF l.kind = "file"
    THEN [layer |-> IF Len(l.w) >= BufferNodes
                    THEN [FlushWriter(l) EXCEPT !.w = <<p>>]
                    ELSE [l EXCEPT !.w = Append(@, p)],
          err |-> NoErr]
    ELSE [layer |-> l, err |-> NotImplemented]

\* Flush(): the layer after the call and the error.
FlushOp(l) ==
    IF l.kind = "slice" THEN [layer |-> l, err |-> NoErr]
    ELSE IF l.kind = "file" THEN FileSeek(FlushWriter(l), 0)
    ELSE [layer |-> l, err |-> NotImplemented]

RECURSIVE ReadAll(_)
\* Repeated ReadNext calls up to the first error: the nodes returned, that
\* error and the layer after the calls.
ReadAll(l) ==
    With(ReadNextOp(l), LAMBDA r :
         IF r.err # NoErr
         THEN [values |-> <<>>, err |-> r.err, layer |-> r.layer]
         ELSE With(ReadAll(r.layer), LAMBDA rest :
                   [values |-> <<r.value>> \o rest.values, err |-> rest.err,
                    layer |-> rest.layer]))

\* groupLayers: the group layer, or the error.
groupLayers(layers) ==
    IF Len(layers) < 2
    THEN [layer |-> NoLayer, err |-> "number of layers must be at least 2"]
    ELSE IF WidthOp(layers[1]) = 0
    THEN [layer |-> NoLayer, err |-> "0 width layers are not allowed"]
    ELSE IF \E i \in 2..(Len(layers) - 1) : WidthOp(layers[i]) # WidthOp(layers[1])
    THEN [layer |-> NoLayer, err |-> "layers width mismatch"]
    ELSE [layer |-> [kind |-> "group", chunks |-> layers, activeChunkIndex |-> 0,
                     widthPerChunk |-> WidthOp(layers[1]),
                     lastChunkWidth |-> WidthOp(layers[Len(layers)])],
          err |-> NoErr]

VARIABLES tree, cw, tree2, toProve, nLeaves, aborted, ret, lrw, ptree, parts, issued

\* ----------------------------------------------------------- state machine
\* tree, cw: the tree under construction and the cache writer it refers to.
\* tree2:    a second tree, restored from the parked nodes of the first.
\* toProve:  the set of leaf indices the builder was given.
\* nLeaves:  the number of AddLeaf calls made.
\* aborted:  an AddLeaf call returned from inside its loop.
\* ret:      what the last call returned.
\* lrw:      a layer read-writer used on its own.
\* ptree:    a ParallelTree and the tasks adding its leaves.
\* parts:    the trees and cache writers of the chunks of a leaf sequence.
\* faults:   the layer operations that fail.
\* issued:   a proof RootAndProof returned and the caller keeps: its elements
\*           at the return, and where its slice lies in the array of t.proof.
vars == <<tree, cw, tree2, toProve, nLeaves, aborted, ret, lrw, ptree, parts, faults, issued>>

NoTree == [layers |-> <<>>]

NoParts == [size |-> 0, kind |-> "none", trees |-> <<>>]

\* No proof is kept by the caller.
NoProof == [held |-> FALSE]

\* NewTreeBuilder().WithLeavesToProve(I).WithMinHeight(m).Build()
Init ==
    \E I \in SUBSET (0..(MaxLeaves - 1)), m \in 0..MaxMinHeight :
        LET b == Build(I, disabledCacheWriter, m)
        IN  /\ tree = b.t
            /\ cw = b.cw
            /\ tree2 = NoTree
            /\ toProve = I
            /\ nLeaves = 0
            /\ aborted = FALSE
            /\ lrw = NoLayer
            /\ ptree = NoTree
            /\ parts = NoParts
            /\ faults = {}
            /\ issued = NoProof
            /\ ret = [op |-> "Build", err |-> b.err]

LeafBound == IF cw.enabled THEN MaxCachedLeaves ELSE MaxLeaves

\* tree.AddLeaf(leaf); a restored second tree is given the same leaf.
AddLeaf ==
    /\ nLeaves < LeafBound
    /\ LET r == AddLeafOp(tree, cw, LeafValue(nLeaves))
       IN  /\ tree' = r.t
           /\ cw' = r.cw
           /\ aborted' = (aborted \/ r.aborted)
           /\ ret' = [op |-> "AddLeaf", err |-> r.err]
    /\ tree2' = IF tree2 = NoTree THEN NoTree
                ELSE AddLeafOp(tree2, disabledCacheWriter, LeafValue(nLeaves)).t
    /\ nLeaves' = nLeaves + 1
    /\ UNCHANGED <<toProve, lrw, ptree, parts, faults, issued>>

\* tree.RootAndProof()
RootAndProof ==
    /\ LET r == RootAndProofOp(tree)
       IN  /\ tree' = r.t
           /\ ret' = [op |-> "RootAndProof", root |-> r.root, proof |-> r.proof]
    /\ UNCHANGED <<cw, tree2, toProve, nLeaves, aborted, lrw, ptree, parts, faults, issued>>

\* tree.Root()
Root ==
    /\ LET r == RootAndProofOp(tree)
       IN  /\ tree' = r.t
           /\ ret' = [op |-> "Root", root |-> r.root]
    /\ UNCHANGED <<cw, tree2, toProve, nLeaves, aborted, lrw, ptree, parts, faults, issued>>

\* tree.Proof()
Proof ==
    /\ LET r == RootAndProofOp(tree)
       IN  /\ tree' = r.t
           /\ ret' = [op |-> "Proof", proof |-> r.proof]
    /\ UNCHANGED <<cw, tree2, toProve, nLeaves, aborted, lrw, ptree, parts, faults, issued>>

\* The indices of toProve among the leaves added so far, and their leaves.
ProvenIndices == SortedSeq({i \in toProve : i < nLeaves})

ProvenLeaves == [k \in 1..Len(ProvenIndices) |-> LeafValue(ProvenIndices[k])]

\* ValidatePartialTree on the root and proof RootAndProof has just returned.
Validate ==
    /\ ret.op = "RootAndProof"
    /\ LET r == ValidatePartialTree(ProvenIndices, ProvenLeaves, ret.proof, ret.root)
       IN  ret' = [op |-> "Validate", valid |-> r.valid, err |-> r.err]
    /\ UNCHANGED <<tree, cw, tree2, toProve, nLeaves, aborted, lrw, ptree, parts, faults, issued>>

\* ValidatePartialTreeWithParkingSnapshots on the root and proof RootAndProof
\* has just returned.
ValidateWithParkingSnapshots ==
    /\ ret.op = "RootAndProof"
    /\ LET r == ValidatePartialTreeWithParkingSnapshots(ProvenIndices, ProvenLeaves,
                                                        ret.proof, ret.root)
       IN  ret' = [op |-> "ValidateWithParkingSnapshots", valid |-> r.valid,
                   parkingSnapshots |-> r.parkingSnapshots, err |-> r.err]
    /\ UNCHANGED <<tree, cw, tree2, toProve, nLeaves, aborted, lrw, ptree, parts, faults, issued>>

\* The values a caller may put in the place of a leaf, a proof node or the
\* root: the values at hand, the padding value and a leaf no tree has seen.
TamperValues ==
    SetOf(ProvenLeaves) \cup SetOf(ret.proof)
        \cup {ret.root, PaddingValue.value, LeafValue(MaxLeaves)}

\* ValidatePartialTree on the root and proof RootAndProof has just returned,
\* after one of them (k = 0: the root), or one of the leaves, was replaced by
\* a different value.
ValidateTampered ==
    /\ ret.op = "RootAndProof"
    /\ Len(ProvenIndices) >= 1
    /\ \E k \in 0..(Len(ProvenLeaves) + Len(ret.proof)), v \in TamperValues :
         LET nl == Len(ProvenLeaves)
             part == IF k = 0 THEN "root" ELSE IF k <= nl THEN "leaf" ELSE "proof"
             old == IF k = 0 THEN ret.root
                    ELSE IF k <= nl THEN ProvenLeaves[k] ELSE ret.proof[k - nl]
             leaves == IF part = "leaf" THEN [ProvenLeaves EXCEPT ![k] = v]
                       ELSE ProvenLeaves
             proof == IF part = "proof" THEN [ret.proof EXCEPT ![k - nl] = v]
                      ELSE ret.proof
             root == IF part = "root" THEN v ELSE ret.root
             r == ValidatePartialTree(ProvenIndices, leaves, proof, root)
         IN  /\ v # old
             /\ ret' = [op |-> "ValidateTampered", part |-> part,
                        valid |-> r.valid, err |-> r.err]
    /\ UNCHANGED <<tree, cw, tree2, toProve, nLeaves, aborted, lrw, ptree, parts, faults, issued>>

\* tree2, a fresh tree of the same builder settings, is given
\* SetParkedNodes(tree.GetParkedNodes()).
Restore ==
    /\ tree2 = NoTree
    /\ LET b == Build({}, disabledCacheWriter, tree.minHeight)
           r == SetParkedNodesOp(b.t, b.cw, GetParkedNodesOp(tree))
       IN  /\ tree2' = r.t
           /\ ret' = [op |-> "SetParkedNodes", err |-> r.err]
    /\ UNCHANGED <<tree, cw, toProve, nLeaves, aborted, lrw, ptree, parts, faults, issued>>

Next ==
    \/ AddLeaf
    \/ RootAndProof
    \/ Root
    \/ Proof
    \/ Validate
    \/ ValidateWithParkingSnapshots
    \/ ValidateTampered

Spec == Init /\ [][Next]_vars

\* The trees of the parked-node round trip: tree is given leaves, and at some
\* point tree2 is restored from its parked nodes and given the leaves tree is
\* given from then on.
NextParked ==
    \/ AddLeaf
    \/ Restore

SpecParked == Init /\ [][NextParked]_vars

\* Heights a caching policy is asked about while at most MaxCachedLeaves
\* leaves are added.
CacheHeights == 0..(RootHeightFromWidth(MaxCachedLeaves) - 1)

\* NewTreeBuilder().WithLeavesToProve(I).WithCacheWriter(cache.NewWriter(policy,
\* factory)).Build(), or the same builder with no cache writer: the policy
\* admits the heights of policy; the layers of appendFails fail to append and
\* the factory fails to create the layer of factoryFails (a layer above the
\* base layer, or the builder returns no tree).
InitCache ==
    \E I \in SUBSET (0..(MaxCachedLeaves - 1)), policy \in SUBSET CacheHeights :
      \E appendFails \in SUBSET policy,
         factoryFails \in {{}} \cup {{h} : h \in policy \ {0}},
         cached \in BOOLEAN :
        LET b == Build(I, IF cached THEN NewWriter(policy, appendFails, factoryFails)
                                    ELSE disabledCacheWriter, 0)
        IN  /\ tree = b.t
            /\ cw = b.cw
            /\ tree2 = NoTree
            /\ toProve = I
            /\ nLeaves = 0
            /\ aborted = FALSE
            /\ lrw = NoLayer
            /\ ptree = NoTree
            /\ parts = NoParts
            /\ faults = {}
            /\ issued = NoProof
            /\ ret = [op |-> "Build", err |-> b.err]

\* cw.GetReader()
GetReader ==
    /\ LET r == GetReaderOp(cw)
       IN  ret' = [op |-> "GetReader", err |-> r.err, reader |-> r.reader]
    /\ UNCHANGED <<tree, cw, tree2, toProve, nLeaves, aborted, lrw, ptree, parts, faults, issued>>

\* GenerateProof(toProve, reader) on the reader GetReader has just returned.
GenerateProof ==
    /\ ret.op = "GetReader"
    /\ ret.reader
    /\ LET r == GenerateProofOp(toProve, cw.layers)
       IN  ret' = [op |-> "GenerateProof", err |-> r.err,
                   sortedProvenLeafIndices |-> r.sortedProvenLeafIndices,
                   provenLeaves |-> r.provenLeaves, proofNodes |-> r.proofNodes,
                   failed |-> r.failed, groups |-> r.groups]
    /\ UNCHANGED <<tree, cw, tree2, toProve, nLeaves, aborted, lrw, ptree, parts, faults, issued>>

\* The heights a layer is installed at: up to the root of the widest cache.
SetLayerHeights == 0..RootHeightFromWidth(MaxCachedLeaves)

\* A slice layer holding width nodes.
SliceOfWidth(width) == [k \in 1..width |-> LeafValue(k - 1)]

\* cache.NewWriter(policy, MakeSliceReadWriterFactory()), used without a tree.
InitSetLayer ==
    /\ tree = NoTree
    /\ cw = NewWriter({}, {}, {})
    /\ tree2 = NoTree
    /\ toProve = {}
    /\ nLeaves = 0
    /\ aborted = FALSE
    /\ lrw = NoLayer
    /\ ptree = NoTree
    /\ parts = NoParts
    /\ faults = {}
    /\ issued = NoProof
    /\ ret = [op |-> "NewWriter", err |-> NoErr]

\* Writer.SetLayer
SetLayerOp(c, layerHeight, rw) ==
    [c EXCEPT !.layers = (layerHeight :> rw) @@ @]

\* cw.SetLayer(layerHeight, rw) with a slice layer of any width.
SetLayer ==
    /\ \E layerHeight \in SetLayerHeights, width \in 0..MaxCachedLeaves :
         cw' = SetLayerOp(cw, layerHeight, SliceOfWidth(width))
    /\ ret' = [op |-> "SetLayer", err |-> NoErr]
    /\ UNCHANGED <<tree, tree2, toProve, nLeaves, aborted, lrw, ptree, parts, faults, issued>>

NextSetLayer ==
    \/ SetLayer
    \/ GetReader

SpecSetLayer == InitSetLayer /\ [][NextSetLayer]_vars

\* The longest index list and leaf list handed to the validation functions,
\* and the largest index in them.
MaxArgLen == 3

RECURSIVE SeqsUpTo(_, _)
\* The sequences over S of length n or less.
SeqsUpTo(S, n) ==
    IF n = 0 THEN {<<>>}
    ELSE LET shorter == SeqsUpTo(S, n - 1)
         IN  shorter \cup {Append(q, x) : q \in {r \in shorter : Len(r) = n - 1},
                                            x \in S}

\* The arguments of a call of a validation function: lists of any shape.
InitValidator ==
    /\ tree = NoTree
    /\ cw = disabledCacheWriter
    /\ tree2 = NoTree
    /\ toProve = {}
    /\ nLeaves = 0
    /\ aborted = FALSE
    /\ lrw = NoLayer
    /\ ptree = NoTree
    /\ parts = NoParts
    /\ faults = {}
    /\ issued = NoProof
    /\ \E leafIndices \in SeqsUpTo(0..MaxArgLen, MaxArgLen),
          leaves \in SeqsUpTo({LeafValue(0), LeafValue(1)}, MaxArgLen),
          proof \in SeqsUpTo({PaddingValue.value}, 1),
          expectedRoot \in {LeafValue(0), HashFunc(LeafValue(0), LeafValue(1))} :
         ret = [op |-> "args", leafIndices |-> leafIndices, leaves |-> leaves,
                proof |-> proof, expectedRoot |-> expectedRoot]

\* ValidatePartialTree(leafIndices, leaves, proof, expectedRoot, hash)
ValidateAny ==
    /\ ret.op = "args"
    /\ LET r == ValidatePartialTree(ret.leafIndices, ret.leaves, ret.proof,
                                    ret.expectedRoot)
       IN  ret' = [op |-> "ValidatePartialTree", leafIndices |-> ret.leafIndices,
                   leaves |-> ret.leaves, proof |-> ret.proof,
                   expectedRoot |-> ret.expectedRoot, valid |-> r.valid,
                   parkingSnapshots |-> <<>>, err |-> r.err,
                   hashes |-> r.hashes]
    /\ UNCHANGED <<tree, cw, tree2, toProve, nLeaves, aborted, lrw, ptree, parts, faults, issued>>

\* ValidatePartialTreeWithParkingSnapshots(leafIndices, leaves, proof,
\* expectedRoot, hash)
ValidateAnyWithParkingSnapshots ==
    /\ ret.op = "args"
    /\ LET r == ValidatePartialTreeWithParkingSnapshots(
                    ret.leafIndices, ret.leaves, ret.proof, ret.expectedRoot)
       IN  ret' = [op |-> "ValidatePartialTreeWithParkingSnapshots",
                   leafIndices |-> ret.leafIndices, leaves |-> ret.leaves,
                   proof |-> ret.proof, expectedRoot |-> ret.expectedRoot,
                   valid |-> r.valid, parkingSnapshots |-> r.parkingSnapshots,
                   err |-> r.err, hashes |-> r.hashes]
    /\ UNCHANGED <<tree, cw, tree2, toProve, nLeaves, aborted, lrw, ptree, parts, faults, issued>>

NextValidator ==
    \/ ValidateAny
    \/ ValidateAnyWithParkingSnapshots

SpecValidator == InitValidator /\ [][NextValidator]_vars

\* The most nodes appended to a layer used on its own, the most chunks of a
\* group layer and the most nodes of a chunk.
MaxLayerWidth == 3
MaxChunks == 3
MaxChunkWidth == 2

RECURSIVE AppendAll(_, _)
\* The layer after every node of values was appended to it.
AppendAll(l, values) ==
    IF Len(values) = 0 THEN l
    ELSE AppendAll(AppendOp(l, Head(values)).layer, Tail(values))

\* A layer as a tree leaves it to a cache reader: made by the layer factory,
\* appended to, and flushed by GetReader.
FilledWith(kind, nodes) ==
    FlushOp(AppendAll(IF kind = "slice" THEN NewSliceReadWriter
                                        ELSE NewFileReadWriter, nodes)).layer

\* Such a layer holding LeafValue(first), LeafValue(first + 1), ...
Filled(kind, first, width) ==
    FilledWith(kind, [k \in 1..width |-> LeafValue(first + k - 1)])

\* Chunks of the given width, the last of them of width lastWidth, holding
\* the nodes LeafValue(0), LeafValue(1), ... in order.
Chunks(kind, count, width, lastWidth) ==
    [c \in 1..count |->
       Filled(kind, (c - 1) * width, IF c = count THEN lastWidth ELSE width)]

\* A new slice or file layer, or the group layer groupLayers makes of slice or
\* file chunks of equal width with a last chunk that is no wider.
InitLayer ==
    /\ tree = NoTree
    /\ cw = disabledCacheWriter
    /\ tree2 = NoTree
    /\ toProve = {}
    /\ aborted = FALSE
    /\ ptree = NoTree
    /\ parts = NoParts
    /\ faults = {}
    /\ issued = NoProof
    /\ ret = [op |-> "new", err |-> NoErr]
    /\ \E kind \in {"slice", "file"} :
         \/ /\ lrw = IF kind = "slice" THEN NewSliceReadWriter
                                       ELSE NewFileReadWriter
            /\ nLeaves = 0
         \/ \E count \in 2..MaxChunks, width \in 1..MaxChunkWidth :
              \E lastWidth \in 0..width :
                /\ lrw = groupLayers(Chunks(kind, count, width, lastWidth)).layer
                /\ nLeaves = (count - 1) * width + lastWidth

\* lrw.Append(node), with node the next of LeafValue(0), LeafValue(1), ...;
\* nLeaves counts the nodes appended.  (Append on a group layer panics.)
LayerAppend ==
    /\ lrw.kind \in {"slice", "file"}
    /\ nLeaves < MaxLayerWidth
    /\ LET r == AppendOp(lrw, LeafValue(nLeaves))
       IN  /\ lrw' = r.layer
           /\ ret' = [op |-> "Append", err |-> r.err]
    /\ nLeaves' = nLeaves + 1
    /\ UNCHANGED <<tree, cw, tree2, toProve, aborted, ptree, parts, faults, issued>>

\* lrw.Flush().  (Flush on a group layer panics.)
LayerFlush ==
    /\ lrw.kind \in {"slice", "file"}
    /\ LET r == FlushOp(lrw)
       IN  /\ lrw' = r.layer
           /\ ret' = [op |-> "Flush", err |-> r.err]
    /\ UNCHANGED <<tree, cw, tree2, toProve, nLeaves, aborted, ptree, parts, faults, issued>>

\* lrw.Seek(index); ret keeps the index and the width before the call.
LayerSeek ==
    /\ \E index \in 0..(MaxChunks * MaxChunkWidth) :
         LET r == SeekOp(lrw, index)
         IN  /\ lrw' = r.layer
             /\ ret' = [op |-> "Seek", index |-> index, width |-> WidthOp(lrw),
                        err |-> r.err]
    /\ UNCHANGED <<tree, cw, tree2, toProve, nLeaves, aborted, ptree, parts, faults, issued>>

\* lrw.ReadNext()
LayerReadNext ==
    /\ LET r == ReadNextOp(lrw)
       IN  /\ lrw' = r.layer
           /\ ret' = [op |-> "ReadNext", value |-> r.value, err |-> r.err]
    /\ UNCHANGED <<tree, cw, tree2, toProve, nLeaves, aborted, ptree, parts, faults, issued>>

NextLayer ==
    \/ LayerAppend
    \/ LayerFlush
    \/ LayerSeek
    \/ LayerReadNext

SpecLayer == InitLayer /\ [][NextLayer]_vars

\* The most leaves split into chunks, and the most leaves of a chunk.
MaxMergeLeaves == 8
MaxChunkLeaves == 4

\* The heights MinHeightPolicy(0) is asked about.
AllHeights == 0..(2 * RootHeightFromWidth(MaxMergeLeaves) + 2)

\* Reader.Layers() of the reader GetReader returns for the cache writer c
\* whose layer factory makes layers of the given kind.
Layers(c, kind) == [h \in DOMAIN c.layers |-> FilledWith(kind, c.layers[h])]

\* The layers of the given height of the caches that have one, in the order
\* of the caches.
LayerGroup(caches, height) ==
    LET with == SortedSeq({i \in 1..Len(caches) : height \in DOMAIN caches[i]})
    IN  [j \in 1..Len(with) |-> caches[with[j]][height]]

\* Merge on the layer maps of the caches: the results it may return (the
\* heights are visited in the order of a Go map, so that of several errors
\* any one may be the one returned).
Merge(caches) ==
    IF Len(caches) < 2
    THEN {[err |-> "number of caches must be at least 2", layers |-> <<>>]}
    ELSE LET heights == UNION {DOMAIN caches[i] : i \in 1..Len(caches)}
             grouped == [h \in heights |->
                           IF Len(LayerGroup(caches, h)) # Len(caches)
                           THEN [layer |-> NoLayer,
                                 err |-> "number of layers per height mismatch"]
                           ELSE groupLayers(LayerGroup(caches, h))]
             errs == {grouped[h].err : h \in heights} \ {NoErr}
         IN  IF errs # {}
             THEN {[err |-> e, layers |-> <<>>] : e \in errs}
             ELSE {[err |-> NoErr, layers |-> [h \in heights |-> grouped[h].layer]]}

RECURSIVE AddLeaves(_, _, _)
\* The loop of BuildTop adding the nodes read as leaves of the subtree, up to
\* the first error.
AddLeaves(t, c, values) ==
    IF Len(values) = 0 THEN [t |-> t, cw |-> c, err |-> NoErr]
    ELSE With(AddLeafOp(t, c, Head(values)), LAMBDA r :
              IF r.err # NoErr THEN [t |-> r.t, cw |-> r.cw, err |-> r.err]
              ELSE AddLeaves(r.t, r.cw, Tail(values)))

\* The layer maps validateStructure looks at: the widths of the layers.
WidthView(layers) == [h \in DOMAIN layers |-> SliceOfWidth(WidthOp(layers[h]))]

\* BuildTop on the layer map of a cache reader with the given caching policy
\* and layer factory: the layers of the new reader, the root and the error.
\* input is the layer map of the reader passed in as it is after the call:
\* newCache.layers is cacheReader.Layers(), the map of the input itself, so
\* the layers stored into it are stored into the input.
BuildTop(layers, policy, kind) ==
    LET maxHeight == IF DOMAIN layers = {} THEN 0
                     ELSE CHOOSE h \in DOMAIN layers : \A g \in DOMAIN layers : g <= h
        newCachingPolicy == {h \in AllHeights : maxHeight + h \in policy}
        b == Build({}, NewWriter(newCachingPolicy, {}, {}), 0)
    IN  IF b.err # NoErr
        THEN [layers |-> <<>>, root |-> Nil, err |-> b.err, input |-> layers]
        ELSE IF maxHeight \notin DOMAIN layers
        THEN [layers |-> <<>>, root |-> Nil, err |-> NilReaderPanic, input |-> layers]
        ELSE With(ReadAll(layers[maxHeight]), LAMBDA read :
             LET readLayers == [layers EXCEPT ![maxHeight] = read.layer]
             IN
             IF read.err # EOF
             THEN [layers |-> <<>>, root |-> Nil, err |-> read.err,
                   input |-> readLayers]
             ELSE With(AddLeaves(b.t, b.cw, read.values), LAMBDA subtree :
                  IF subtree.err # NoErr
                  THEN [layers |-> <<>>, root |-> Nil, err |-> subtree.err,
                        input |-> readLayers]
                  ELSE LET top == {h + maxHeight : h \in DOMAIN subtree.cw.layers \ {0}}
                           newLayers ==
                               [h \in DOMAIN layers \cup top |->
                                  IF h \in top
                                  THEN FilledWith(kind, subtree.cw.layers[h - maxHeight])
                                  ELSE IF h = maxHeight THEN read.layer
                                  ELSE layers[h]]
                           err == validateStructure(WidthView(newLayers))
                       IN  IF err # NoErr
                           THEN [layers |-> <<>>, root |-> Nil, err |-> err,
                                 input |-> newLayers]
                           ELSE [layers |-> newLayers,
                                 root |-> RootAndProofOp(subtree.t).root,
                                 err |-> NoErr, input |-> newLayers]))

\* A leaf sequence is about to be split into chunks of size leaves, each
\* chunk with its own NewCachingTree(NewWriter(MinHeightPolicy(0), factory)),
\* the factory making layers of one kind.
InitMerge ==
    /\ tree = NoTree
    /\ cw = disabledCacheWriter
    /\ tree2 = NoTree
    /\ toProve = {}
    /\ nLeaves = 0
    /\ aborted = FALSE
    /\ lrw = NoLayer
    /\ ptree = NoTree
    /\ ret = [op |-> "new", err |-> NoErr]
    /\ faults = {}
    /\ issued = NoProof
    /\ \E size \in 1..MaxChunkLeaves, kind \in {"slice", "file"} :
         parts = [size |-> size, kind |-> kind, trees |-> <<>>]

\* trees[i / size].AddLeaf(leaf i), the tree made first if i is the first
\* leaf of its chunk.
ChunkAddLeaf ==
    /\ nLeaves < MaxMergeLeaves
    /\ ret.op \in {"new", "AddLeaf"}
    /\ LET c == nLeaves \div parts.size
           b == Build({}, NewWriter(AllHeights, {}, {}), 0)
           old == IF c < Len(parts.trees) THEN parts.trees[c + 1]
                  ELSE [t |-> b.t, cw |-> b.cw]
           r == AddLeafOp(old.t, old.cw, LeafValue(nLeaves))
           new == [t |-> r.t, cw |-> r.cw]
       IN  /\ parts' = [parts EXCEPT !.trees =
                          IF c < Len(parts.trees) THEN [@ EXCEPT ![c + 1] = new]
                          ELSE Append(@, new)]
           /\ ret' = [op |-> "AddLeaf", err |-> r.err]
    /\ nLeaves' = nLeaves + 1
    /\ UNCHANGED <<tree, cw, tree2, toProve, aborted, lrw, ptree, faults, issued>>

\* Merge(cacheReaders) on the readers GetReader returns for the cache writers
\* of the chunks.
MergeCaches ==
    /\ ret.op = "AddLeaf"
    /\ Len(parts.trees) >= 2
    /\ \A i \in 1..Len(parts.trees) : GetReaderOp(parts.trees[i].cw).reader
    /\ \E r \in Merge([i \in 1..Len(parts.trees) |->
                         Layers(parts.trees[i].cw, parts.kind)]) :
         ret' = [op |-> "Merge", err |-> r.err, layers |-> r.layers]
    /\ UNCHANGED <<tree, cw, tree2, toProve, nLeaves, aborted, lrw, ptree, parts, faults, issued>>

\* BuildTop(cacheReader) on the reader Merge has just returned.
BuildTopOfMerged ==
    /\ ret.op = "Merge"
    /\ ret.err = NoErr
    /\ LET r == BuildTop(ret.layers, AllHeights, parts.kind)
       IN  ret' = [op |-> "BuildTop", err |-> r.err, layers |-> r.layers,
                   root |-> r.root, input |-> r.input]
    /\ UNCHANGED <<tree, cw, tree2, toProve, nLeaves, aborted, lrw, ptree, parts, faults, issued>>

NextMerge ==
    \/ ChunkAddLeaf
    \/ MergeCaches
    \/ BuildTopOfMerged

SpecMerge == InitMerge /\ [][NextMerge]_vars

\* A tree with a cache writer whose policy admits the base layer; once a
\* reader was handed out, one operation of one of the cached layers may
\* start to fail.
LayerOps == {"Seek", "ReadNext", "Width"}

InitFaulty ==
    \E I \in SUBSET (0..(MaxCachedLeaves - 1)), policy \in SUBSET CacheHeights :
        /\ 0 \in policy
        /\ LET b == Build(I, NewWriter(policy, {}, {}), 0)
           IN  /\ tree = b.t
               /\ cw = b.cw
               /\ ret = [op |-> "Build", err |-> b.err]
        /\ tree2 = NoTree
        /\ toProve = I
        /\ nLeaves = 0
        /\ aborted = FALSE
        /\ lrw = NoLayer
        /\ ptree = NoTree
        /\ parts = NoParts
        /\ faults = {}
        /\ issued = NoProof

\* From now on the op of the layer of height h returns SomeError, as the
\* seekErrorReader, readErrorReader and widthReader of the tests do.
LayerBreaks ==
    /\ ret.op = "GetReader"
    /\ ret.reader
    /\ faults = {}
    /\ \E op \in LayerOps, h \in DOMAIN cw.layers : faults' = {<<op, h>>}
    /\ UNCHANGED <<tree, cw, tree2, toProve, nLeaves, aborted, ret, lrw, ptree, parts, issued>>

\* The positions of the padded tree over the leaves added.
TreePositions ==
    {Position(i, h) : h \in 0..RootHeightFromWidth(nLeaves),
                      i \in 0..(Pow2(RootHeightFromWidth(nLeaves)) - 1)}

\* GetNode(reader, nodePos) on the reader GetReader has just returned.
GetNodeAt ==
    /\ ret.op = "GetReader"
    /\ ret.reader
    /\ \E nodePos \in TreePositions :
         /\ nodePos.Index < Pow2(RootHeightFromWidth(nLeaves) - nodePos.Height)
         /\ LET r == GetNode(cw.layers, nodePos)
            IN  ret' = [op |-> "GetNode", nodePos |-> nodePos, val |-> r.val,
                        err |-> r.err, failed |-> r.failed]
    /\ UNCHANGED <<tree, cw, tree2, toProve, nLeaves, aborted, lrw, ptree, parts, faults, issued>>

NextFaulty ==
    \/ AddLeaf
    \/ GetReader
    \/ LayerBreaks
    \/ GenerateProof
    \/ GetNodeAt

SpecFaulty == InitFaulty /\ [][NextFaulty]_vars

\* A cache writer with any policy and any failing factory heights, on which
\* SetLayer and GetLayerWriter are called in any order.
MaxWriterHeight == 2

MaxSetWidth == 2

WriterHeights == 0..MaxWriterHeight

InitWriter ==
    /\ tree = NoTree
    /\ tree2 = NoTree
    /\ toProve = {}
    /\ nLeaves = 0
    /\ aborted = FALSE
    /\ lrw = NoLayer
    /\ ptree = NoTree
    /\ parts = NoParts
    /\ faults = {}
    /\ issued = NoProof
    /\ ret = [op |-> "NewWriter", err |-> NoErr]
    /\ \E policy \in SUBSET WriterHeights :
         \E factoryFails \in SUBSET policy :
            cw = NewWriter(policy, {}, factoryFails)

\* cw.SetLayer(layerHeight, rw) with a slice layer that holds nodes.
WriterSetLayer ==
    /\ \E layerHeight \in WriterHeights, width \in 1..MaxSetWidth :
         cw' = SetLayerOp(cw, layerHeight, SliceOfWidth(width))
    /\ ret' = [op |-> "SetLayer", err |-> NoErr]
    /\ UNCHANGED <<tree, tree2, toProve, nLeaves, aborted, lrw, ptree, parts, faults, issued>>

\* cw.GetLayerWriter(layerHeight)
WriterGetLayerWriter ==
    /\ \E layerHeight \in WriterHeights :
         LET r == GetLayerWriter(cw, layerHeight)
         IN  /\ cw' = r.cw
             /\ ret' = [op |-> "GetLayerWriter", layerHeight |-> layerHeight,
                        writer |-> r.writer, layer |-> r.layer,
                        calls |-> r.calls, err |-> r.err]
    /\ UNCHANGED <<tree, tree2, toProve, nLeaves, aborted, lrw, ptree, parts, faults, issued>>

NextWriter ==
    \/ WriterSetLayer
    \/ WriterGetLayerWriter

SpecWriter == InitWriter /\ [][NextWriter]_vars

\* ParallelTree (parallel.go).  The caller adds leaves one call after the
\* other; each call starts a task that runs addNode concurrently with the
\* tasks of the earlier calls.
MaxParallelLeaves == 4

maxConcurrency == 32

ErrorIncompleteTree == "number of leaves must be a power of 2"

IndexOutOfRange == "panic: index out of range"

IdleTask == [pc |-> "idle", height |-> 0, index |-> 0, node |-> Nil]

FinishedTask == [pc |-> "finished", height |-> 0, index |-> 0, node |-> Nil]

\* layers holds the layers stored in the array of t.layers and len is the
\* length its slice header holds; pendingNodes of a layer is a set of
\* <<index, node>> pairs.
NewParallelTree ==
    [layers |-> <<>>, len |-> 0, mutex |-> 0,
     leafCount |-> 0, wg |-> 0, guard |-> 0,
     tasks |-> [id \in 1..MaxParallelLeaves |-> IdleTask],
     caller |-> "adding", crashed |-> FALSE]

\* getParent(sibling, node) whichever side the node is on.
addNodeParentNodeFirst(index, node, sib) == HashFunc(node, sib)

\* The parent of a node and its sibling: the even index is the left child.
addNodeParent(index, node, sib) ==
    IF index % 2 = 0 THEN HashFunc(node, sib) ELSE HashFunc(sib, node)

\* layer.popSiblingOrAddNode under the layer's mutex.
popSiblingOrAddNode(pendingNodes, index, node) ==
    LET siblingIndex == IF index % 2 = 0 THEN index + 1 ELSE index - 1
        found == {e \in pendingNodes : e[1] = siblingIndex}
    IN  IF found # {}
        THEN [pendingNodes |-> pendingNodes \ found,
              sibling |-> (CHOOSE e \in found : TRUE)[2], found |-> TRUE]
        ELSE [pendingNodes |-> {e \in pendingNodes : e[1] # index}
                                   \cup {<<index, node>>},
              sibling |-> Nil, found |-> FALSE]

\* pendingNodes[index], nil when the map has no such key.
PendingAt(pendingNodes, index) ==
    LET found == {e \in pendingNodes : e[1] = index}
    IN  IF found = {} THEN Nil ELSE (CHOOSE e \in found : TRUE)[2]

RECURSIVE isFull(_, _)
\* ParallelTree.isFull from the given height: every layer under the top one
\* is empty and the top one holds one node.  On a tree without layers the
\* loop indexes layer 0 of an empty slice.
isFull(layers, height) ==
    IF height = Len(layers) - 1
    THEN [full |-> Cardinality(layers[height + 1]) = 1, err |-> NoErr]
    ELSE IF height >= Len(layers)
    THEN [full |-> FALSE, err |-> IndexOutOfRange]
    ELSE IF layers[height + 1] # {}
    THEN [full |-> FALSE, err |-> NoErr]
    ELSE isFull(layers, height + 1)

\* What Root() computes once wg.Wait() has returned.
ParallelRootOp(t) ==
    LET full == isFull(t.layers, 0)
    IN  IF full.err # NoErr THEN [root |-> Nil, err |-> full.err]
        ELSE IF ~full.full THEN [root |-> Nil, err |-> ErrorIncompleteTree]
        ELSE [root |-> PendingAt(t.layers[Len(t.layers)], 0), err |-> NoErr]

InitParallel ==
    /\ tree = NoTree
    /\ cw = disabledCacheWriter
    /\ tree2 = NoTree
    /\ toProve = {}
    /\ nLeaves = 0
    /\ aborted = FALSE
    /\ lrw = NoLayer
    /\ parts = NoParts
    /\ faults = {}
    /\ issued = NoProof
    /\ ret = [op |-> "new", err |-> NoErr]
    /\ ptree = NewParallelTree

UnchangedByParallel == UNCHANGED <<tree, cw, tree2, toProve, nLeaves, aborted, lrw, parts, faults, issued>>

\* ParallelTree.AddLeaf: takes the next leaf index, counts the task in the
\* wait group, takes a slot of the guard channel (blocking while all
\* maxConcurrency slots are taken) and starts addNode(0, index, leaf).
ParallelAddLeaf ==
    /\ ~ptree.crashed
    /\ ptree.caller \in {"adding", "returned"}
    /\ ptree.leafCount < MaxParallelLeaves
    /\ ptree.guard < maxConcurrency
    /\ LET index == ptree.leafCount
       IN  ptree' = [ptree EXCEPT
                        !.leafCount = index + 1,
                        !.wg = @ + 1,
                        !.guard = @ + 1,
                        !.caller = "adding",
                        !.tasks[index + 1] =
                            [pc |-> "ensureHeight", height |-> 0,
                             index |-> index, node |-> LeafValue(index)]]
    /\ ret' = [op |-> "ParallelAddLeaf", err |-> NoErr]
    /\ UnchangedByParallel

\* ensureHeight's first test, len(t.layers) > height, read without the
\* tree's mutex: it sees the length the header holds at this moment.
TaskCheckHeight(id) ==
    LET task == ptree.tasks[id]
    IN  /\ ~ptree.crashed
        /\ task.pc = "ensureHeight"
        /\ ptree' = [ptree EXCEPT !.tasks[id].pc =
                        IF ptree.len > task.height THEN "popSibling" ELSE "Lock"]
        /\ UNCHANGED ret
        /\ UnchangedByParallel

\* t.Lock() in ensureHeight.
TaskLock(id) ==
    /\ ~ptree.crashed
    /\ ptree.tasks[id].pc = "Lock"
    /\ ptree.mutex = 0
    /\ ptree' = [ptree EXCEPT !.mutex = id, !.tasks[id].pc = "grow"]
    /\ UNCHANGED ret
    /\ UnchangedByParallel

\* One round of ensureHeight's loop under the mutex.  The append stores a
\* new length in the header of t.layers and the new layer in the array, in
\* an order the language does not fix (the gc compiler stores the length
\* first): this step does one of the stores and TaskStore the other.
TaskGrow(id) ==
    LET task == ptree.tasks[id]
    IN  /\ ~ptree.crashed
        /\ task.pc = "grow"
        /\ IF ptree.len > task.height
           THEN ptree' = [ptree EXCEPT !.tasks[id].pc = "Unlock"]
           ELSE \/ ptree' = [ptree EXCEPT !.len = @ + 1,
                                          !.tasks[id].pc = "storeLayer"]
                \/ ptree' = [ptree EXCEPT !.layers = Append(@, {}),
                                          !.tasks[id].pc = "storeLen"]
        /\ UNCHANGED ret
        /\ UnchangedByParallel

\* The second store of the append.
TaskStore(id) ==
    LET task == ptree.tasks[id]
    IN  /\ ~ptree.crashed
        /\ task.pc \in {"storeLayer", "storeLen"}
        /\ ptree' = IF task.pc = "storeLayer"
                    THEN [ptree EXCEPT !.layers = Append(@, {}),
                                       !.tasks[id].pc = "grow"]
                    ELSE [ptree EXCEPT !.len = @ + 1,
                                       !.tasks[id].pc = "grow"]
        /\ UNCHANGED ret
        /\ UnchangedByParallel

\* t.Unlock() in ensureHeight.
TaskUnlock(id) ==
    /\ ~ptree.crashed
    /\ ptree.tasks[id].pc = "Unlock"
    /\ ptree' = [ptree EXCEPT !.mutex = 0, !.tasks[id].pc = "popSibling"]
    /\ UNCHANGED ret
    /\ UnchangedByParallel

\* addNode after ensureHeight: t.layers[height], read without the tree's
\* mutex, then popSiblingOrAddNode on that layer.  A task that saw the new
\* length of an append in progress reads a layer that is not stored yet: the
\* read is a data race, the layer it yields has no mutex and no map, and the
\* program faults in popSiblingOrAddNode.  With a sibling found the task goes
\* on as addNode(height+1, index>>1, parent).
TaskPopSibling(id) ==
    LET task == ptree.tasks[id]
    IN  /\ ~ptree.crashed
        /\ task.pc = "popSibling"
        /\ IF task.height >= Len(ptree.layers)
           THEN ptree' = [ptree EXCEPT !.crashed = TRUE]
           ELSE LET r == popSiblingOrAddNode(ptree.layers[task.height + 1],
                                             task.index, task.node)
                IN  ptree' = [ptree EXCEPT
                        !.layers[task.height + 1] = r.pendingNodes,
                        !.tasks[id] =
                            IF r.found
                            THEN [pc |-> "ensureHeight",
                                  height |-> task.height + 1,
                                  index |-> task.index \div 2,
                                  node |-> addNodeParent(task.index, task.node,
                                                         r.sibling)]
                            ELSE [task EXCEPT !.pc = "Done"]]
        /\ UNCHANGED ret
        /\ UnchangedByParallel

\* t.wg.Done() of a task that left its node pending.
TaskDone(id) ==
    /\ ~ptree.crashed
    /\ ptree.tasks[id].pc = "Done"
    /\ ptree' = [ptree EXCEPT !.wg = @ - 1, !.tasks[id].pc = "release"]
    /\ UNCHANGED ret
    /\ UnchangedByParallel

\* <-t.guard: the task gives its slot back and ends.
TaskRelease(id) ==
    /\ ~ptree.crashed
    /\ ptree.tasks[id].pc = "release"
    /\ ptree' = [ptree EXCEPT !.guard = @ - 1, !.tasks[id] = FinishedTask]
    /\ UNCHANGED ret
    /\ UnchangedByParallel

\* The caller calls Root() and blocks in t.wg.Wait().
ParallelRootCall ==
    /\ ~ptree.crashed
    /\ ptree.caller = "adding"
    /\ ptree' = [ptree EXCEPT !.caller = "waiting"]
    /\ ret' = [op |-> "ParallelRootCall", err |-> NoErr]
    /\ UnchangedByParallel

\* wg.Wait() returns with the counter at zero; Root() then runs isFull and
\* reads the top layer.  The panic of isFull on a tree without layers ends
\* the program inside the call.
ParallelRootReturn ==
    /\ ~ptree.crashed
    /\ ptree.caller = "waiting"
    /\ ptree.wg = 0
    /\ LET r == ParallelRootOp(ptree)
       IN  /\ ret' = [op |-> "ParallelRoot", root |-> r.root, err |-> r.err]
           /\ ptree' = IF r.err = IndexOutOfRange
                       THEN [ptree EXCEPT !.crashed = TRUE]
                       ELSE [ptree EXCEPT !.caller = "returned"]
    /\ UnchangedByParallel

CheckHeight == \E id \in 1..MaxParallelLeaves : TaskCheckHeight(id)

Lock == \E id \in 1..MaxParallelLeaves : TaskLock(id)

Grow == \E id \in 1..MaxParallelLeaves : TaskGrow(id)

Store == \E id \in 1..MaxParallelLeaves : TaskStore(id)

Unlock == \E id \in 1..MaxParallelLeaves : TaskUnlock(id)

PopSibling == \E id \in 1..MaxParallelLeaves : TaskPopSibling(id)

Done == \E id \in 1..MaxParallelLeaves : TaskDone(id)

Release == \E id \in 1..MaxParallelLeaves : TaskRelease(id)

\* A step of one of the addNode tasks.
NextTask ==
    \/ CheckHeight
    \/ Lock
    \/ Grow
    \/ Store
    \/ Unlock
    \/ PopSibling
    \/ Done
    \/ Release

NextParallel ==
    \/ ParallelAddLeaf
    \/ ParallelRootCall
    \/ ParallelRootReturn
    \/ NextTask

SpecParallel == InitParallel /\ [][NextParallel]_vars

\* The scheduler runs every task that can take a step, and the caller when
\* its wait is over.
SpecParallelFair ==
    /\ InitParallel
    /\ [][NextParallel]_vars
    /\ WF_vars(NextTask)
    /\ WF_vars(ParallelRootReturn)

\* The guard channel of ParallelTree with the tasks counted by where they
\* are: running (started, node in hand, parallel.go:50-57), parked (past
\* wg.Done(), before <-t.guard) and finished.  Which of the running tasks
\* parks its node next is left open: every task ends its addNode chain in
\* the else branch, and every order the layers allow is among the orders
\* counted here.
MaxGuardLeaves == 34

NewGuardedTree ==
    [leafCount |-> 0, wg |-> 0, guard |-> 0, running |-> 0, parked |-> 0,
     finished |-> 0, caller |-> "idle"]

\* A send on t.guard that never blocks.
guardFullNever(guard) == FALSE

\* t.guard <- struct{}{} blocks while the channel holds maxConcurrency items.
guardFull(guard) == guard >= maxConcurrency

InitGuard ==
    /\ tree = NoTree
    /\ cw = disabledCacheWriter
    /\ tree2 = NoTree
    /\ toProve = {}
    /\ nLeaves = 0
    /\ aborted = FALSE
    /\ lrw = NoLayer
    /\ parts = NoParts
    /\ faults = {}
    /\ issued = NoProof
    /\ ret = [op |-> "new", err |-> NoErr]
    /\ ptree = NewGuardedTree

\* AddLeaf up to the send on the guard channel: the leaf index is taken and
\* the task counted in the wait group.
GuardAddLeafCall ==
    /\ ptree.caller = "idle"
    /\ ptree.leafCount < MaxGuardLeaves
    /\ ptree' = [ptree EXCEPT !.leafCount = @ + 1, !.wg = @ + 1,
                              !.caller = "sending"]
    /\ ret' = [op |-> "ParallelAddLeafCall", err |-> NoErr]
    /\ UnchangedByParallel

\* The send on the guard channel goes through and AddLeaf starts the task
\* and returns.
GuardAddLeafSend ==
    /\ ptree.caller = "sending"
    /\ ~guardFull(ptree.guard)
    /\ ptree' = [ptree EXCEPT !.guard = @ + 1, !.running = @ + 1,
                              !.caller = "idle"]
    /\ ret' = [op |-> "ParallelAddLeaf", err |-> NoErr]
    /\ UnchangedByParallel

\* A running task finds no sibling, leaves its node pending and calls
\* t.wg.Done().
GuardTaskDone ==
    /\ ptree.running > 0
    /\ ptree' = [ptree EXCEPT !.running = @ - 1, !.parked = @ + 1,
                              !.wg = @ - 1]
    /\ ret' = [op |-> "Done", err |-> NoErr]
    /\ UnchangedByParallel

\* <-t.guard: a parked task gives its slot back and ends.
GuardTaskRelease ==
    /\ ptree.parked > 0
    /\ ptree' = [ptree EXCEPT !.parked = @ - 1, !.finished = @ + 1,
                              !.guard = @ - 1]
    /\ ret' = [op |-> "Release", err |-> NoErr]
    /\ UnchangedByParallel

NextGuard ==
    \/ GuardAddLeafCall
    \/ GuardAddLeafSend
    \/ GuardTaskDone
    \/ GuardTaskRelease

SpecGuard == InitGuard /\ [][NextGuard]_vars

\* ----------------------------------------------------- position arithmetic
\* Pairs of positions, on which isAncestorOf is applied.
MaxPositionIndex == 7
MaxPositionHeight == 3

Positions ==
    { Position(i, h) : i \in 0..MaxPositionIndex, h \in 0..MaxPositionHeight }

InitPosition ==
    /\ tree = NoTree
    /\ cw = disabledCacheWriter
    /\ tree2 = NoTree
    /\ toProve = {}
    /\ nLeaves = 0
    /\ aborted = FALSE
    /\ lrw = NoLayer
    /\ ptree = NoTree
    /\ parts = NoParts
    /\ faults = {}
    /\ issued = NoProof
    /\ \E p \in Positions, other \in Positions :
         ret = [op |-> "args", p |-> p, other |-> other]

\* p.isAncestorOf(other)
IsAncestorOfCall ==
    /\ ret.op = "args"
    /\ ret' = [op |-> "isAncestorOf", p |-> ret.p, other |-> ret.other,
               result |-> isAncestorOf(ret.p, ret.other)]
    /\ UNCHANGED <<tree, cw, tree2, toProve, nLeaves, aborted, lrw, ptree, parts, faults, issued>>

NextPosition ==
    \/ IsAncestorOfCall

SpecPosition == InitPosition /\ [][NextPosition]_vars

\* ------------------------------------------------------- ten cached leaves
\* A caching tree whose cache never fails, as in TestNewTreeUnbalancedProof:
\* up to MaxWideLeaves leaves, any policy over the heights below the root.
MaxWideLeaves == 10

WideHeights == 0..(RootHeightFromWidth(MaxWideLeaves) - 1)

InitWide ==
    \E I \in SUBSET {0, 4, 7}, policy \in SUBSET WideHeights :
        LET b == Build(I, NewWriter(policy, {}, {}), 0)
        IN  /\ tree = b.t
            /\ cw = b.cw
            /\ tree2 = NoTree
            /\ toProve = I
            /\ nLeaves = 0
            /\ aborted = FALSE
            /\ lrw = NoLayer
            /\ ptree = NoTree
            /\ parts = NoParts
            /\ faults = {}
            /\ issued = NoProof
            /\ ret = [op |-> "Build", err |-> b.err]

\* tree.AddLeaf(leaf), up to MaxWideLeaves leaves.
AddLeafWide ==
    /\ nLeaves < MaxWideLeaves
    /\ LET r == AddLeafOp(tree, cw, LeafValue(nLeaves))
       IN  /\ tree' = r.t
           /\ cw' = r.cw
           /\ aborted' = (aborted \/ r.aborted)
           /\ ret' = [op |-> "AddLeaf", err |-> r.err]
    /\ nLeaves' = nLeaves + 1
    /\ UNCHANGED <<tree2, toProve, lrw, ptree, parts, faults, issued>>

NextWide ==
    \/ AddLeafWide
    \/ Root
    \/ Proof
    \/ GetReader

SpecWide == InitWide /\ [][NextWide]_vars

\* ------------------------------------------------------- flushing layers
\* A cache writer given layers whose Flush succeeds or fails, and GetReader
\* on it.  The order in which a map is ranged over is not specified: any
\* order of the stored heights is taken.
MaxFlushHeight == 2
MaxFlushWidth == 2

Orders(S) ==
    {q \in [1..Cardinality(S) -> S] : \A i, j \in DOMAIN q : i # j => q[i] # q[j]}

InitFlush ==
    /\ tree = NoTree
    /\ cw = NewWriter({}, {}, {})
    /\ tree2 = NoTree
    /\ toProve = {}
    /\ nLeaves = 0
    /\ aborted = FALSE
    /\ lrw = NoLayer
    /\ ptree = NoTree
    /\ parts = NoParts
    /\ faults = {}
    /\ issued = NoProof
    /\ ret = [op |-> "NewWriter", err |-> NoErr]

\* cw.SetLayer(layerHeight, rw) with a layer whose Flush fails or succeeds.
SetFlushingLayer ==
    /\ \E layerHeight \in 0..MaxFlushHeight, width \in 1..MaxFlushWidth, fails \in BOOLEAN :
         /\ cw' = SetLayerOp(cw, layerHeight, SliceOfWidth(width))
         /\ faults' = IF fails THEN faults \cup {<<"Flush", layerHeight>>}
                               ELSE faults \ {<<"Flush", layerHeight>>}
    /\ ret' = [op |-> "SetLayer", err |-> NoErr]
    /\ UNCHANGED <<tree, tree2, toProve, nLeaves, aborted, lrw, ptree, parts, issued>>

\* cw.GetReader()
GetReaderAfterFlush ==
    /\ \E order \in Orders(DOMAIN cw.layers) :
         LET r == GetReaderFlushing(cw, order)
         IN  ret' = [op |-> "GetReader", err |-> r.err, reader |-> r.reader,
                     order |-> order]
    /\ UNCHANGED <<tree, cw, tree2, toProve, nLeaves, aborted, lrw, ptree, parts, faults, issued>>

NextFlush ==
    \/ SetFlushingLayer
    \/ GetReaderAfterFlush

SpecFlush == InitFlush /\ [][NextFlush]_vars

\* ------------------------------------------------------- a proof kept
\* cap(s) of a slice of the model.
Cap(s) == Len(s.elems) + Len(s.spare)

\* The array slot of index k - 1 of a slice, visible or spare.
ArraySlot(s, k) == IF k <= Len(s.elems) THEN s.elems[k] ELSE s.spare[k - Len(s.elems)]

\* root, proof := tree.RootAndProof(), the caller keeping proof.  The slice
\* returned lies in the array of t.proof if the appends to ephemeralProof
\* fitted its capacity; append moves t.proof to another array exactly when
\* its capacity changes.
IssueProof ==
    /\ ~issued.held
    /\ LET r == RootAndProofOp(tree)
       IN  /\ tree' = r.t
           /\ ret' = [op |-> "RootAndProof", root |-> r.root, proof |-> r.proof]
           /\ issued' = [held |-> TRUE, elems |-> r.proof, at |-> nLeaves,
                         cap |-> Cap(tree.proof),
                         shared |-> Len(r.proof) - Len(tree.proof.elems)
                                        <= Len(tree.proof.spare)]
    /\ UNCHANGED <<cw, tree2, toProve, nLeaves, aborted, lrw, ptree, parts, faults>>

\* The elements the caller now reads in the proof it keeps.
IssuedElems ==
    IF issued.shared /\ Cap(tree.proof) = issued.cap
    THEN [k \in 1..Len(issued.elems) |-> ArraySlot(tree.proof, k)]
    ELSE issued.elems

\* The trees that prove any leaves up to index MaxIssuedIndex, given up to
\* MaxWideLeaves leaves.
MaxIssuedIndex == 5

InitIssued ==
    \E I \in SUBSET (0..MaxIssuedIndex) :
        LET b == Build(I, disabledCacheWriter, 0)
        IN  /\ tree = b.t
            /\ cw = b.cw
            /\ tree2 = NoTree
            /\ toProve = I
            /\ nLeaves = 0
            /\ aborted = FALSE
            /\ lrw = NoLayer
            /\ ptree = NoTree
            /\ parts = NoParts
            /\ faults = {}
            /\ issued = NoProof
            /\ ret = [op |-> "Build", err |-> b.err]

NextIssued ==
    \/ AddLeafWide
    \/ IssueProof
    \/ RootAndProof

SpecIssued == InitIssued /\ [][NextIssued]_vars

\* ------------------------------------------------- parked nodes set anew
\* A tree without cache and without leaves to prove, given leaves and
\* SetParkedNodes calls in any order; a list of parked nodes has up to
\* MaxParkedLen entries, each nil or a node.
MaxParkedLen == 2

ParkedLists == SeqsUpTo({Nil, PaddingValue.value}, MaxParkedLen) \ {<<>>}

InitSetParked ==
    LET b == Build({}, disabledCacheWriter, 0)
    IN  /\ tree = b.t
        /\ cw = b.cw
        /\ tree2 = NoTree
        /\ toProve = {}
        /\ nLeaves = 0
        /\ aborted = FALSE
        /\ lrw = NoLayer
        /\ ptree = NoTree
        /\ parts = NoParts
        /\ faults = {}
        /\ issued = NoProof
        /\ ret = [op |-> "Build", err |-> b.err]

\* tree.SetParkedNodes(nodes)
SetParkedNodes ==
    /\ \E nodes \in ParkedLists :
         LET r == SetParkedNodesOp(tree, cw, nodes)
         IN  /\ tree' = r.t
             /\ cw' = r.cw
             /\ ret' = [op |-> "SetParkedNodes", nodes |-> nodes, err |-> r.err]
    /\ UNCHANGED <<tree2, toProve, nLeaves, aborted, lrw, ptree, parts, faults, issued>>

NextSetParked ==
    \/ AddLeaf
    \/ SetParkedNodes

SpecSetParked == InitSetParked /\ [][NextSetParked]_vars

\* --------------------------------------------------- traversal of a layer
\* traverseSubtree applied to a reader over a layer of up to MaxTraverseLen
\* nodes at any position of it, for a width of up to 2^MaxTraverseHeight,
\* with and without an external padding.
MaxTraverseLen == 4
MaxTraverseHeight == 2

TraverseData(n) == [k \in 1..n |-> LeafValue(k - 1)]

TraversePaddings == {Nil, PaddingValue.value, <<PaddingValue.value, PaddingValue.value>>}

InitTraverse ==
    /\ tree = NoTree
    /\ cw = disabledCacheWriter
    /\ tree2 = NoTree
    /\ toProve = {}
    /\ nLeaves = 0
    /\ aborted = FALSE
    /\ lrw = NoLayer
    /\ ptree = NoTree
    /\ parts = NoParts
    /\ faults = {}
    /\ issued = NoProof
    /\ \E n \in 0..MaxTraverseLen, h \in 0..MaxTraverseHeight :
         \E pos \in 0..n, leavesToProve \in SUBSET (0..(Pow2(h) - 1)) :
             \E externalPadding \in TraversePaddings :
                 ret = [op |-> "args", data |-> TraverseData(n), pos |-> pos,
                        width |-> Pow2(h), leavesToProve |-> leavesToProve,
                        externalPadding |-> externalPadding]

\* traverseSubtree(leafReader, width, hash, leavesToProve, externalPadding)
TraverseSubtreeCall ==
    /\ ret.op = "args"
    /\ LET r == traverseSubtree(ret.data, ret.pos, ret.width, ret.leavesToProve,
                                ret.externalPadding)
       IN  ret' = [op |-> "traverseSubtree", data |-> ret.data, pos |-> ret.pos,
                   width |-> ret.width, leavesToProve |-> ret.leavesToProve,
                   externalPadding |-> ret.externalPadding,
                   root |-> r.root, provenLeaves |-> r.provenLeaves,
                   log |-> r.log, err |-> r.err]
    /\ UNCHANGED <<tree, cw, tree2, toProve, nLeaves, aborted, lrw, ptree, parts, faults, issued>>

NextTraverse ==
    \/ TraverseSubtreeCall

SpecTraverse == InitTraverse /\ [][NextTraverse]_vars

NextCache ==
    \/ AddLeaf
    \/ Root
    \/ GetReader
    \/ GenerateProof

SpecCache == InitCache /\ [][NextCache]_vars

\* ------------------------------------------------------- reference tree
\* The tree computed layer by layer: a layer with an odd number of nodes
\* gets the padding value behind its last node, then adjacent pairs are hashed.
PadOdd(layer) ==
    IF Len(layer) % 2 = 1 THEN Append(layer, PaddingValue.value) ELSE layer

PairUp(layer) ==
    [i \in 1..(Len(layer) \div 2) |-> HashFunc(layer[2 * i - 1], layer[2 * i])]

RECURSIVE RefLayer(_, _)
\* The layer of height h of the reference tree over the first n leaves.
RefLayer(h, n) ==
    IF h = 0 THEN [i \in 1..n |-> LeafValue(i - 1)]
    ELSE PairUp(PadOdd(RefLayer(h - 1, n)))

\* The root of the reference tree over the first n >= 1 leaves.
RefRoot(n) == RefLayer(RootHeightFromWidth(n), n)[1]

\* The height of the tree RootAndProof completes over n >= 1 leaves.
TreeHeight(n, minHeight) ==
    IF RootHeightFromWidth(n) > minHeight THEN RootHeightFromWidth(n) ELSE minHeight

\* The node at position p: a node wholly behind the leaves is padding.
RefNode(p, n) ==
    LET layer == RefLayer(p.Height, n)
    IN  IF p.Index < Len(layer) THEN layer[p.Index + 1] ELSE PaddingValue.value

RECURSIVE Replay(_, _, _)
\* The tree NewTreeBuilder().WithLeavesToProve(I).WithMinHeight(m).Build()
\* after the first n leaves were added, with no other call in between.
Replay(I, m, n) ==
    IF n = 0 THEN Build(I, disabledCacheWriter, m).t
    ELSE AddLeafOp(Replay(I, m, n - 1), disabledCacheWriter, LeafValue(n - 1)).t

\* ------------------------------------------------------------------ claims

\* C1: for N >= 1 leaves and a non-empty set of proven indices below N, the
\* root and proof RootAndProof returns are accepted by ValidatePartialTree
\* with the sorted indices and their leaves: it returns true and a nil error.
C1_ProofValidates ==
    (ret.op = "Validate" /\ Len(ProvenIndices) >= 1)
        => (ret.valid /\ ret.err = NoErr)

C1_Witness ==
    /\ ret.op = "Validate"
    /\ nLeaves = 5
    /\ Len(ProvenIndices) = 3
    /\ ret.valid

\* C2: for N >= 1 leaves Root() is the root of the reference tree computed
\* layer by layer up to the final height, with the padding value as right
\* sibling of the last node of every layer of odd width below that height.
C2_RootIsPaddedReferenceRoot ==
    (ret.op = "Root" /\ nLeaves >= 1)
        => ret.root = RefLayer(TreeHeight(nLeaves, tree.minHeight), nLeaves)[1]

\* Five leaves and a minimum height of 3: the layers of 5, 3 and 1 nodes are
\* padded.
C2_Witness ==
    /\ ret.op = "Root"
    /\ nLeaves = 5
    /\ tree.minHeight = 3
    /\ ret.root = RefRoot(5)

\* C6: after each AddLeaf call the parked slot of every layer is occupied
\* exactly if the number of nodes added to the layer so far is odd.
C6_ParkedIffOdd ==
    \A i \in 1..Len(tree.layers) :
        ~IsEmpty(tree.layers[i].parking) <=> tree.layers[i].added % 2 = 1

C6_Witness ==
    /\ ret.op = "AddLeaf"
    /\ nLeaves = 5
    /\ ~IsEmpty(tree.layers[1].parking)
    /\ IsEmpty(tree.layers[2].parking)
    /\ ~IsEmpty(tree.layers[3].parking)


\* C3: for N >= 1 leaves, a non-empty set of proven indices below N and a
\* caching policy that admits layer 0, GenerateProof on the reader of the
\* tree's cache writer returns no error and the proof nodes Proof() returns
\* on a proving tree built over the same leaves with the same indices.
C3_GeneratedProofEqualsTreeProof ==
    (/\ ret.op = "GenerateProof"
     /\ nLeaves >= 1
     /\ toProve # {}
     /\ toProve \subseteq 0..(nLeaves - 1)
     /\ 0 \in cw.policy
     /\ cw.appendFails = {}
     /\ cw.factoryFails = {})
        => (/\ ret.err = NoErr
            /\ ret.proofNodes = RootAndProofOp(Replay(toProve, 0, nLeaves)).proof)

\* C4: when one leaf, one proof node or the root of a valid (I, L, proof,
\* root) is replaced by a different value, ValidatePartialTree returns
\* valid = false and a nil error.
C4_TamperedIsRejected ==
    ret.op = "ValidateTampered" => (~ret.valid /\ ret.err = NoErr)

C4_Witness ==
    /\ ret.op = "ValidateTampered"
    /\ ret.part = "proof"
    /\ nLeaves = 5
    /\ Len(ProvenIndices) = 2
    /\ ~ret.valid

C7_RootAndProofReadOnly ==
    LET rp == Replay(toProve, tree.minHeight, nLeaves)
    IN  /\ tree.layers = rp.layers
        /\ tree.proof.elems = rp.proof.elems
        /\ tree.leavesToProve = rp.leavesToProve
        /\ ret.op \in {"Root", "RootAndProof"} => ret.root = RootAndProofOp(rp).root
        /\ ret.op \in {"Proof", "RootAndProof"} => ret.proof = RootAndProofOp(rp).proof

\* Proof() has returned more nodes than AddLeaf has emitted, and the first of
\* them was written to the array slot behind the emitted proof.
C7_Witness ==
    /\ ret.op = "Proof"
    /\ nLeaves = 6
    /\ Len(tree.proof.elems) = 3
    /\ Len(tree.proof.spare) = 1
    /\ tree.proof.spare[1] # Nil
    /\ Len(ret.proof) > Len(tree.proof.elems)

\* The highest layer that is given a node by the AddLeaf call that has just
\* returned and whose append failed, as the error AddLeaf builds from it.
LastAppendError ==
    LET hit == {h \in cw.appendFails :
                    /\ h < Len(tree.layers)
                    /\ tree.layers[h + 1].cache
                    /\ nLeaves % Pow2(h) = 0}
    IN  IF hit = {} THEN NoErr
        ELSE "error while caching: append to layer "
             \o ToString(CHOOSE h \in hit : \A g \in hit : g <= h)

OnProvenPath(p) ==
    \E k \in 1..Len(ProvenIndices) : isAncestorOf(p, Position(ProvenIndices[k], 0))

\* The positions below the root that are off the proven paths and whose
\* parent is on one.
ProofPositions ==
    LET H == TreeHeight(nLeaves, tree.minHeight)
    IN  {p \in UNION {{Position(i, h) : i \in 0..(Pow2(H - h) - 1)} : h \in 0..(H - 1)} :
            ~OnProvenPath(p) /\ OnProvenPath(parent(p))}

Count(s, v) == Cardinality({k \in 1..Len(s) : s[k] = v})

\* C9: the proof has one entry for every position that is off the proven
\* paths and whose parent is on one, the value of that position, and no
\* other entry: no position contributes twice and no entry lies on a proven
\* path.
C9_ProofIsMinimal ==
    (ret.op = "Proof" /\ nLeaves >= 1) =>
        /\ Len(ret.proof) = Cardinality(ProofPositions)
        /\ \A v \in SetOf(ret.proof) :
               Count(ret.proof, v)
                   = Cardinality({p \in ProofPositions : RefNode(p, nLeaves) = v})

C9_Witness ==
    /\ ret.op = "Proof"
    /\ nLeaves = 5
    /\ tree.minHeight = 0
    /\ toProve = {0, 1, 4}
    /\ Len(ret.proof) = 3

\* C10: once tree2, a fresh tree, was given SetParkedNodes of the parked
\* nodes of tree, the two trees have equal parked nodes and equal roots
\* after every further leaf added to both.
C10_RestoredTreeFollows ==
    tree2 # NoTree =>
        /\ GetParkedNodesOp(tree2) = GetParkedNodesOp(tree)
        /\ RootAndProofOp(tree2).root = RootAndProofOp(tree).root

\* tree2 was restored after three leaves and two more were added to both.
C10_Witness ==
    /\ tree2 # NoTree
    /\ ret.op = "AddLeaf"
    /\ nLeaves = 5
    /\ tree2.layers[1].added = 2
    /\ Len(tree2.layers) = 3


-----------------------------------------------------------------------------
\* The writer caches every height and neither it nor its layers fail.
CachesEveryHeight ==
    /\ cw.enabled
    /\ cw.policy = CacheHeights
    /\ cw.appendFails = {}
    /\ cw.factoryFails = {}

\* The geometry validateStructure accepts, stated on the widths: the base
\* layer is present and not empty, and every present layer h below the root
\* height of the base layer is as wide as the base layer shifted right h times.
HasGeometry(layers) ==
    /\ 0 \in DOMAIN layers
    /\ Len(layers[0]) > 0
    /\ \A h \in DOMAIN layers :
         h < RootHeightFromWidth(Len(layers[0]))
           => Len(layers[h]) = Len(layers[0]) \div Pow2(h)

\* C11, as the code has it: after N leaves under a policy that caches every
\* height, every layer h with 2^h <= N is cached and holds N / 2^h rounded
\* DOWN nodes (a node is cached when both of its children exist), and
\* GetReader hands out a reader only for a cache of the geometry it validates.
C11_CachedLayerWidthRoundsDown ==
    /\ CachesEveryHeight =>
         /\ \A h \in CacheHeights : Pow2(h) <= nLeaves => h \in DOMAIN cw.layers
         /\ \A h \in DOMAIN cw.layers : Len(cw.layers[h]) = nLeaves \div Pow2(h)
    /\ (ret.op = "GetReader" /\ ret.reader) => HasGeometry(cw.layers)

\* Five leaves with every height cached: the layers are 5, 2 and 1 wide and
\* the reader is handed out.
C11_Witness ==
    /\ CachesEveryHeight
    /\ nLeaves = 5
    /\ Len(cw.layers[1]) = 2
    /\ Len(cw.layers[2]) = 1
    /\ ret.op = "GetReader"
    /\ ret.reader

\* C11 as stated: every cached layer h within the tree height holds N / 2^h
\* rounded UP nodes.
C11_CachedLayerWidthRoundsUp ==
    CachesEveryHeight =>
      \A h \in DOMAIN cw.layers :
        Pow2(h) <= nLeaves
          => Len(cw.layers[h]) = (nLeaves + Pow2(h) - 1) \div Pow2(h)


-----------------------------------------------------------------------------
-----------------------------------------------------------------------------
\* The lists differ in length, the leaf list is empty, or the indices are not
\* strictly ascending (out of order, or one repeated).
Malformed(leafIndices, leaves) ==
    \/ Len(leafIndices) # Len(leaves)
    \/ Len(leaves) = 0
    \/ \E i, j \in 1..Len(leafIndices) : i < j /\ leafIndices[i] >= leafIndices[j]

\* C13: ValidatePartialTree and ValidatePartialTreeWithParkingSnapshots return
\* valid = false, a non-nil error (and no snapshot) and call the hash function
\* not once whenever the index list and the leaf list differ in length, the
\* leaf list is empty, the indices are not ascending or an index is repeated.
C13_MalformedInputIsRejectedUnhashed ==
    (/\ ret.op \in {"ValidatePartialTree", "ValidatePartialTreeWithParkingSnapshots"}
     /\ Malformed(ret.leafIndices, ret.leaves)) =>
      /\ ~ret.valid
      /\ ret.err # NoErr
      /\ ret.hashes = 0
      /\ ret.parkingSnapshots = <<>>

\* Index 1 given twice, with a proof node and the root that the first of the
\* two leaves alone would hash to.
C13_Witness ==
    /\ ret.op = "ValidatePartialTreeWithParkingSnapshots"
    /\ ret.leafIndices = <<1, 1>>
    /\ ret.leaves = <<LeafValue(1), LeafValue(0)>>
    /\ ret.proof = <<PaddingValue.value>>
    /\ ret.err = "leafIndices contain duplicates"
    /\ ~ret.valid


-----------------------------------------------------------------------------
RECURSIVE TrimEmpty(_)
\* nodes without its trailing empty entries.
TrimEmpty(nodes) ==
    IF Len(nodes) > 0 /\ nodes[Len(nodes)] = Nil
    THEN TrimEmpty(SubSeq(nodes, 1, Len(nodes) - 1))
    ELSE nodes

\* C14: for the root and proof of a tree, ValidatePartialTreeWithParkingSnapshots
\* returns one snapshot per proven leaf, in index order, and the snapshot of
\* leaf i is, up to trailing empty entries, what GetParkedNodes returned on
\* the tree under construction just before leaf i was added.
C14_SnapshotsAreParkedNodes ==
    (ret.op = "ValidateWithParkingSnapshots" /\ ret.valid /\ ret.err = NoErr) =>
      /\ Len(ret.parkingSnapshots) = Len(ProvenIndices)
      /\ \A k \in 1..Len(ProvenIndices) :
           TrimEmpty(ret.parkingSnapshots[k])
             = TrimEmpty(GetParkedNodesOp(
                   Replay(toProve, tree.minHeight, ProvenIndices[k])))

\* Six leaves, leaves 2 and 5 proven: the snapshot of leaf 5 holds the node
\* over leaves 0..3 at height 2 and leaf 4 at height 0.
C14_Witness ==
    /\ ret.op = "ValidateWithParkingSnapshots"
    /\ ret.valid
    /\ nLeaves = 6
    /\ toProve = {2, 5}
    /\ Len(ret.parkingSnapshots) = 2
    /\ ret.parkingSnapshots[2][1] = LeafValue(4)
    /\ ret.parkingSnapshots[2][2] = Nil
    /\ ret.parkingSnapshots[2][3] = RefNode(Position(0, 2), 6)


-----------------------------------------------------------------------------
RECURSIVE PadUp(_, _)
\* value hashed with the padding value as right sibling, layers times.
PadUp(value, layers) ==
    IF layers = 0 THEN value
    ELSE PadUp(HashFunc(value, PaddingValue.value), layers - 1)

\* C15: for N >= 1 leaves and a minimum height m above ceil(log2 N), Root() is
\* the root of the tree of height ceil(log2 N) hashed with the padding value
\* as right sibling once per layer of the m - ceil(log2 N) extra layers; for
\* m <= ceil(log2 N) Root() is the root of the tree built with no minimum
\* height.
C15_MinHeightPadsTheRoot ==
    (ret.op = "Root" /\ nLeaves >= 1) =>
      LET height == RootHeightFromWidth(nLeaves)
      IN  IF tree.minHeight > height
          THEN ret.root = PadUp(RefRoot(nLeaves), tree.minHeight - height)
          ELSE ret.root = RootAndProofOp(Replay(toProve, 0, nLeaves)).root

\* Three leaves and a minimum height of 3, one layer above the tree of 3
\* leaves.
C15_Witness ==
    /\ ret.op = "Root"
    /\ nLeaves = 3
    /\ tree.minHeight = 3
    /\ ret.root = HashFunc(RefRoot(3), PaddingValue.value)


-----------------------------------------------------------------------------
\* C16: on a slice, file or group layer, Seek(i) returns io.EOF whenever
\* i >= Width() and returns no error whenever i < Width().
C16_SeekEOFIffBehindWidth ==
    ret.op = "Seek" =>
      IF ret.index >= ret.width THEN ret.err = EOF ELSE ret.err = NoErr

\* The same for the slice layer alone.
C16_SliceSeekEOFIffBehindWidth ==
    (ret.op = "Seek" /\ lrw.kind = "slice") =>
      IF ret.index >= ret.width THEN ret.err = EOF ELSE ret.err = NoErr

-----------------------------------------------------------------------------
\* Seek(i) succeeds and the ReadNext calls after it return the nodes i, i + 1,
\* ..., Width() - 1 of the concatenation of the chunks and then io.EOF.
SeekThenReadAll(l, i) ==
    With(SeekOp(l, i), LAMBDA s :
         /\ s.err = NoErr
         /\ With(ReadAll(s.layer), LAMBDA r :
                 /\ r.values = [k \in 1..(WidthOp(l) - i) |-> LeafValue(i + k - 1)]
                 /\ r.err = EOF))

\* C17: in every state a group layer reaches by Seek and ReadNext calls,
\* Seek(i) for every i < Width() followed by repeated ReadNext returns the
\* nodes i .. Width() - 1 of the concatenation of the chunks, in order, and
\* then io.EOF.
C17_GroupSeekThenReadIsConcatenation ==
    lrw.kind = "group" =>
      \A i \in 0..(WidthOp(lrw) - 1) : SeekThenReadAll(lrw, i)

\* The same for the group layers whose last chunk is not empty.
C17_GroupOfNonEmptyChunks ==
    (lrw.kind = "group" /\ lrw.lastChunkWidth > 0) =>
      \A i \in 0..(WidthOp(lrw) - 1) : SeekThenReadAll(lrw, i)

-----------------------------------------------------------------------------
\* C18: when the leaves are split into two or more chunks of equal size, the
\* last one possibly shorter, and every chunk has its own fully cached tree,
\* Merge of the caches succeeds, and BuildTop of the merged cache succeeds
\* and returns the root of the single tree over all the leaves.
C18_MergedRootIsWholeTreeRoot ==
    /\ ret.op = "Merge" => ret.err = NoErr
    /\ ret.op = "BuildTop" =>
         /\ ret.err = NoErr
         /\ ret.root = RootAndProofOp(Replay({}, 0, nLeaves)).root

\* The same for chunks that all hold the same power-of-two number of leaves.
C18_FullPowerOfTwoChunks ==
    (/\ nLeaves % parts.size = 0
     /\ parts.size = Pow2(RootHeightFromWidth(parts.size))) =>
      /\ ret.op = "Merge" => ret.err = NoErr
      /\ ret.op = "BuildTop" =>
           /\ ret.err = NoErr
           /\ ret.root = RootAndProofOp(Replay({}, 0, nLeaves)).root

\* -----------------------------------------------------------------------
\* The root the sequential Tree returns for the first n leaves.
SequentialRoot(n) == RootAndProofOp(Replay({}, 0, n)).root

IsPowerOfTwo(n) == \E k \in 0..n : Pow2(k) = n

\* C19: for a power-of-two number of leaves added through
\* ParallelTree.AddLeaf, whatever the interleaving of the addNode tasks was,
\* a Root() that returns does so without error and with the root sequential
\* construction computes over the same leaves in the same order.
C19_ParallelRootIsSequentialRoot ==
    (ret.op = "ParallelRoot" /\ IsPowerOfTwo(ptree.leafCount))
        => (ret.err = NoErr /\ ret.root = SequentialRoot(ptree.leafCount))

\* Root() returned for four leaves, whose tasks built three layers.
C19_Witness ==
    /\ ret.op = "ParallelRoot"
    /\ ptree.leafCount = 4
    /\ ptree.len = 3
    /\ ret.root = SequentialRoot(4)

\* -----------------------------------------------------------------------
\* No task holds a node: each one is still to start or is past its wg.Done().
Quiescent ==
    \A id \in 1..MaxParallelLeaves :
        ptree.tasks[id].pc \in {"idle", "release", "finished"}

RECURSIVE LeavesIn(_, _)
\* The number of leaves under the nodes pending in layers h.. of the array.
LeavesIn(layers, h) ==
    IF h >= Len(layers) THEN 0
    ELSE Cardinality(layers[h + 1]) * Pow2(h) + LeavesIn(layers, h + 1)

\* C20: a Root() called after the AddLeaf calls returned inspects the layers
\* only when every task those calls started has finished, so that every
\* leaf added is under a node pending in the layers it reads; and every
\* such task does finish, so that the Root() call returns.
C20_RootWaitsAndReturns ==
    /\ [](ret.op = "ParallelRoot"
            => (Quiescent /\ LeavesIn(ptree.layers, 0) = ptree.leafCount))
    /\ ((ptree.caller = "waiting" /\ ptree.leafCount >= 1)
            ~> (ptree.caller = "returned"))

\* The same with the runs left out in which a task faulted on its
\* unsynchronised read of the layers slice.
C20_RootWaitsAndReturnsUnlessFaulted ==
    /\ [](ret.op = "ParallelRoot"
            => (Quiescent /\ LeavesIn(ptree.layers, 0) = ptree.leafCount))
    /\ ((ptree.caller = "waiting" /\ ptree.leafCount >= 1)
            ~> (ptree.caller = "returned" \/ ptree.crashed))

\* -----------------------------------------------------------------------
\* The tasks in flight: started and not yet past <-t.guard.
InFlight(t) == t.running + t.parked

\* C21: never more than maxConcurrency = 32 leaf-adding tasks are in flight;
\* a task is started only by a send that found a free slot, so that the
\* AddLeaf call for a 33rd task waits for a release; and every task in
\* flight holds one slot, which it gives back once, when it ends.
C21_AtMostMaxConcurrencyInFlight ==
    /\ [](InFlight(ptree) <= 32)
    /\ [](ptree.guard = InFlight(ptree))
    /\ [](ptree.leafCount =
              InFlight(ptree) + ptree.finished
                  + (IF ptree.caller = "sending" THEN 1 ELSE 0))
    /\ [][InFlight(ptree') > InFlight(ptree) => InFlight(ptree) < 32]_vars
    /\ [][(ptree.caller = "sending" /\ InFlight(ptree) = 32
              /\ ptree'.caller = "idle")
            => ptree'.finished > ptree.finished]_vars

\* The 33rd task was started: 32 tasks are in flight once more and one has
\* released its slot.
C21_Witness ==
    /\ ptree.leafCount = 33
    /\ ptree.caller = "idle"
    /\ InFlight(ptree) = 32
    /\ ptree.finished = 1

\* -----------------------------------------------------------------------
\* C22: a GetLayerWriter(h) call on a writer that stores a layer for h,
\* created earlier or installed by SetLayer whatever the policy says,
\* returns that layer without calling the factory and changes nothing; with
\* no layer stored and h admitted by the policy it calls the factory once
\* and stores and returns the layer the factory made (a factory error is
\* returned with nothing stored); with no layer stored and h not admitted
\* it returns no layer and no error and stores nothing.
C22_GetLayerWriterStoredElsePolicy ==
    [][ret'.op = "GetLayerWriter" =>
        LET h == ret'.layerHeight
        IN  IF h \in DOMAIN cw.layers
            THEN /\ ret'.writer /\ ret'.layer = cw.layers[h]
                 /\ ret'.calls = 0 /\ ret'.err = NoErr
                 /\ cw' = cw
            ELSE IF h \in cw.policy
            THEN /\ ret'.calls = 1
                 /\ IF h \in cw.factoryFails
                    THEN ~ret'.writer /\ ret'.err # NoErr /\ cw' = cw
                    ELSE /\ ret'.writer /\ ret'.err = NoErr
                         /\ DOMAIN cw'.layers = DOMAIN cw.layers \cup {h}
                         /\ cw'.layers[h] = ret'.layer
                         /\ \A g \in DOMAIN cw.layers :
                                cw'.layers[g] = cw.layers[g]
            ELSE /\ ~ret'.writer /\ ret'.layer = Nil
                 /\ ret'.calls = 0 /\ ret'.err = NoErr
                 /\ cw' = cw]_vars

\* GetLayerWriter returned a layer that SetLayer installed at a height the
\* policy does not admit, next to a layer the factory made.
C22_Witness ==
    /\ ret.op = "GetLayerWriter"
    /\ ret.layerHeight \notin cw.policy
    /\ ret.writer
    /\ Len(ret.layer) > 0
    /\ \E g \in cw.policy : g \in DOMAIN cw.layers /\ cw.layers[g] = <<>>

\* -----------------------------------------------------------------------
\* The call returned an error and nothing else.
ReturnsOnlyAnError ==
    /\ ret.err \notin {NoErr, NilReaderPanic, ErrMissingValueAtBaseLayer}
    /\ ret.op = "GetNode" => ret.val = Nil
    /\ ret.op = "GenerateProof"
          => (/\ ret.proofNodes = <<>>
              /\ ret.provenLeaves = <<>>
              /\ ret.sortedProvenLeafIndices = <<>>)

\* C23 (as amended): a GetNode or GenerateProof call during which a Seek,
\* ReadNext or Width of a layer failed with an error other than
\* end-of-stream returns an error and no node and no proof, and no call that
\* returns a node or a proof has met such a failure.  The error carries a
\* context prefix, with the position sought for a failing Seek of GetNode,
\* except that GenerateProof returns a failing Width of the base layer as
\* it is.
C23_LayerFailureIsReturned ==
    /\ (ret.op \in {"GetNode", "GenerateProof"} /\ ret.failed)
           => ReturnsOnlyAnError
    /\ (ret.op \in {"GetNode", "GenerateProof"} /\ ret.err = NoErr)
           => ~ret.failed
    /\ (ret.op = "GetNode" /\ ret.nodePos.Height \in DOMAIN cw.layers
           /\ SeekFails(ret.nodePos.Height))
           => ret.err = "while seeking to Position " \o PositionString(ret.nodePos)
                          \o " in cache: some error"
    /\ (ret.op \in {"GetNode", "GenerateProof"} /\ ret.failed /\ ret.err = SomeError)
           => (ret.op = "GenerateProof" /\ WidthFails(0))

\* C23 (as stated): every such failure makes the call return an error that
\* wraps the message of the failure in a context prefix, and no node and no
\* proof.
C23_LayerFailureIsReturnedWrapped ==
    (ret.op \in {"GetNode", "GenerateProof"} /\ ret.failed)
        => (ReturnsOnlyAnError /\ ret.err # SomeError)

\* GetNode computed a node of an uncached layer from the layer below and the
\* ReadNext of that layer failed.
C23_Witness ==
    /\ ret.op = "GetNode"
    /\ ret.failed
    /\ ret.nodePos.Height \notin DOMAIN cw.layers
    /\ ret.err = "while traversing subtree for root: while reading a leaf: some error"

\* -----------------------------------------------------------------------
RECURSIVE FloorLog2(_)
\* floor(log2 n) for n >= 1.
FloorLog2(n) == IF n < 2 THEN 0 ELSE 1 + FloorLog2(n \div 2)

RECURSIVE LeavesParked(_, _)
\* The number of leaves under the nodes parked in the layers h.. of the tree.
LeavesParked(layers, h) ==
    IF h >= Len(layers) THEN 0
    ELSE (IF IsEmpty(layers[h + 1].parking) THEN 0 ELSE Pow2(h))
         + LeavesParked(layers, h + 1)

\* C24: after N >= 1 AddLeaf calls the tree holds floor(log2 N) + 1 layers,
\* each with one parking slot, and the nodes parked in them cover the N
\* leaves: one node of height h for every bit h set in N.
C24_LayersAreLogarithmic ==
    nLeaves >= 1
        => (/\ Len(tree.layers) = FloorLog2(nLeaves) + 1
            /\ LeavesParked(tree.layers, 0) = nLeaves)

\* Six leaves are held in three layers.
C24_Witness ==
    /\ ret.op = "AddLeaf"
    /\ nLeaves = 6
    /\ Len(tree.layers) = 3

\* -----------------------------------------------------------------------
RECURSIVE ShiftRight(_, _)
\* x >> n, one bit at a time.
ShiftRight(x, n) == IF n <= 0 THEN x ELSE ShiftRight(x \div 2, n - 1)

RECURSIVE Ascend(_, _)
\* The position n parent steps above q.
Ascend(q, n) == IF n <= 0 THEN q ELSE Ascend(parent(q), n - 1)

\* C25: p.isAncestorOf(q) holds exactly when p is at least as high as q and
\* p's index is q's index shifted right by the height difference, which is
\* when p is reached from q by parent steps; a position below q is never its
\* ancestor.
C25_IsAncestorOfIffShiftedIndex ==
    ret.op = "isAncestorOf"
        => /\ ret.result
                <=> (/\ ret.p.Height >= ret.other.Height
                     /\ ret.p.Index = ShiftRight(ret.other.Index,
                                                 ret.p.Height - ret.other.Height))
           /\ ret.result
                <=> (/\ ret.p.Height >= ret.other.Height
                     /\ ret.p = Ascend(ret.other, ret.p.Height - ret.other.Height))
           /\ ret.p.Height < ret.other.Height => ~ret.result

\* A position two layers up is found to be the ancestor of a node that is not
\* the leftmost one of its layer.
C25_Witness ==
    /\ ret.op = "isAncestorOf"
    /\ ret.result
    /\ ret.p.Height = ret.other.Height + 2
    /\ ret.other.Index = 6

\* -----------------------------------------------------------------------
RECURSIVE RootOfLeaves(_)
\* The root of the padded tree over a non-empty layer of nodes.
RootOfLeaves(layer) ==
    IF Len(layer) = 1 THEN layer[1] ELSE RootOfLeaves(PairUp(PadOdd(layer)))

\* The leaf sequences a validated root may have been built from.
LeafSequences == SeqsUpTo({LeafValue(0), LeafValue(1)}, MaxArgLen) \ {<<>>}

\* C26: the hash of the model is free of collisions; when
\* ValidatePartialTree(I, L, proof, R) returns true and R is the root of the
\* tree over a leaf sequence X, every index I[k] is below the length of X and
\* every leaf L[k] is X[I[k]].
C26_AcceptedLeavesAreTreeLeaves ==
    (ret.op = "ValidatePartialTree" /\ ret.valid)
        => \A X \in LeafSequences :
               RootOfLeaves(X) = ret.expectedRoot
                   => \A k \in 1..Len(ret.leafIndices) :
                          /\ ret.leafIndices[k] < Len(X)
                          /\ ret.leaves[k] = X[ret.leafIndices[k] + 1]

\* -----------------------------------------------------------------------
\* C27: on the reader of a cache whose policy admits layer 0, with no layer
\* operation failing, GetNode returns without error, for every position of
\* the padded tree over the leaves added, the node the reference tree has
\* there: the stored node, the padded node at the right edge, or the padding
\* value behind the data.
C27_GetNodeIsReferenceNode ==
    (ret.op = "GetNode" /\ faults = {})
        => /\ ret.err = NoErr
           /\ ret.val = RefNode(ret.nodePos, nLeaves)

\* What holds of the code: unless calcNode meets a missing layer reader,
\* GetNode returns the node of the reference tree, except that behind the
\* leaves of layer 0 it returns ErrMissingValueAtBaseLayer, which its callers
\* replace by the padding value.
C27_GetNodeIsReferenceNodeUnlessPanic ==
    (ret.op = "GetNode" /\ faults = {} /\ ret.err # NilReaderPanic)
        => IF ret.nodePos.Height = 0 /\ ret.nodePos.Index >= nLeaves
           THEN ret.err = ErrMissingValueAtBaseLayer
           ELSE /\ ret.err = NoErr
                /\ ret.val = RefNode(ret.nodePos, nLeaves)

\* C28: on the reader of a cache whose policy admits layer 0, with no layer
\* operation failing, no call of GetNode or GenerateProof makes calcNode
\* call Seek on the reader of a layer the cache does not hold.
C28_NoSeekOnMissingLayer ==
    (ret.op \in {"GetNode", "GenerateProof"} /\ faults = {})
        => ret.err # NilReaderPanic

\* -----------------------------------------------------------------------
\* The parked node of every layer of a tree.
ParkedNodes(t) == [i \in 1..Len(t.layers) |-> t.layers[i].parking]

\* C29: an AddLeaf call in which the creation of the next layer's cache
\* writer fails leaves the parked nodes and the proof either as the call
\* would have left them had the creation succeeded, or as they were before
\* the call; and Root() is the root of the reference tree over all the leaves
\* added, whether or not such a call was among them.
C29_FailedLayerCreationIsAtomic ==
    /\ [][(ret'.op = "AddLeaf" /\ nLeaves' = nLeaves + 1
              /\ AddLeafOp(tree, cw, LeafValue(nLeaves)).aborted)
            => LET whole == AddLeafOp(tree, [cw EXCEPT !.factoryFails = {}],
                                      LeafValue(nLeaves)).t
               IN  \/ /\ ParkedNodes(tree') = ParkedNodes(whole)
                       /\ tree'.proof = whole.proof
                   \/ /\ ParkedNodes(tree') = ParkedNodes(tree)
                       /\ tree'.proof = tree.proof]_vars
    /\ [](ret.op = "Root" /\ nLeaves >= 1
            => ret.root = RefLayer(TreeHeight(nLeaves, tree.minHeight), nLeaves)[1])

\* -----------------------------------------------------------------------
RECURSIVE RealNode(_, _)
\* The node of height h and index i over leaves that all exist: no padding.
RealNode(h, i) ==
    IF h = 0 THEN LeafValue(i)
    ELSE HashFunc(RealNode(h - 1, 2 * i), RealNode(h - 1, 2 * i + 1))

\* C30: after N leaves were added to a caching tree whose appends all
\* succeed, every layer the policy admits exists once a node of its height
\* does, every cached layer h holds the floor(N / 2^h) nodes of height h
\* that have no padding below them, in index order, and Root, Proof and
\* GetReader leave every cache layer as it is.
C30_CacheHoldsTheRealNodes ==
    /\ [](/\ \A h \in cw.policy :
                (h = 0 \/ Pow2(h) <= nLeaves) => h \in DOMAIN cw.layers
          /\ \A h \in DOMAIN cw.layers :
                cw.layers[h] = [k \in 1..(nLeaves \div Pow2(h)) |-> RealNode(h, k - 1)])
    /\ [][ret'.op \in {"Root", "Proof", "GetReader"} => cw' = cw]_vars

\* Ten leaves with every height cached, after Root(): the layers are 10, 5,
\* 2 and 1 wide.
C30_Witness ==
    /\ ret.op = "Root"
    /\ nLeaves = 10
    /\ toProve = {0, 4, 7}
    /\ DOMAIN cw.layers = 0..3
    /\ Len(cw.layers[0]) = 10
    /\ Len(cw.layers[1]) = 5
    /\ Len(cw.layers[2]) = 2
    /\ Len(cw.layers[3]) = 1

\* -----------------------------------------------------------------------
\* C31: when GenerateProof returns no error, the proven leaves it returns are
\* the leaves of the base layer at the sorted indices, one per index and in
\* their order; in particular every requested index is below the width of
\* the base layer.
C31_OneProvenLeafPerIndex ==
    (ret.op = "GenerateProof" /\ ret.err = NoErr)
        => /\ Len(ret.provenLeaves) = Len(ret.sortedProvenLeafIndices)
           /\ \A k \in 1..Len(ret.sortedProvenLeafIndices) :
                 /\ ret.sortedProvenLeafIndices[k] < Len(cw.layers[0])
                 /\ ret.provenLeaves[k] = cw.layers[0][ret.sortedProvenLeafIndices[k] + 1]

\* What holds of the code: the proven leaves returned are the leaves at the
\* requested indices that are below the width of the base layer.
C31_ProvenLeavesBelowWidth ==
    (ret.op = "GenerateProof" /\ ret.err = NoErr)
        => LET below == SelectSeq(ret.sortedProvenLeafIndices,
                                  LAMBDA i : i < Len(cw.layers[0]))
           IN  /\ Len(ret.provenLeaves) = Len(below)
               /\ \A k \in 1..Len(below) :
                     ret.provenLeaves[k] = cw.layers[0][below[k] + 1]

\* -----------------------------------------------------------------------
\* C32: GetReader on a writer one of whose stored layers fails to flush
\* returns an error and no reader, in whatever order the layers are flushed.
C32_AnyFlushFailureFailsGetReader ==
    (ret.op = "GetReader" /\ faults # {})
        => (ret.err # NoErr /\ ~ret.reader)

\* What holds of the code: the flush stops GetReader exactly if the layer
\* flushed last fails; otherwise the result is that of validateStructure.
C32_LastFlushDecides ==
    ret.op = "GetReader"
        => IF ret.order # <<>> /\ FlushFails(ret.order[Len(ret.order)])
           THEN ret.err = SomeError /\ ~ret.reader
           ELSE /\ ret.err = validateStructure(cw.layers)
                /\ ret.reader <=> ret.err = NoErr

\* -----------------------------------------------------------------------
\* C33: the elements of a proof RootAndProof returned stay what they were at
\* the return, whatever AddLeaf and RootAndProof calls follow on the tree.
C33_IssuedProofIsStable ==
    issued.held => IssuedElems = issued.elems

\* -----------------------------------------------------------------------
\* C34: a task reads t.layers (its length in ensureHeight's first test, its
\* element in addNode) only while it holds the mutex of the tree, and no
\* task reads it while another task is between the two stores of an append.
C34_LayersReadUnderMutex ==
    [][\A id \in DOMAIN ptree.tasks :
          (TaskCheckHeight(id) \/ TaskPopSibling(id))
              => /\ ptree.mutex = id
                 /\ \A other \in DOMAIN ptree.tasks :
                       ptree.tasks[other].pc \notin {"storeLayer", "storeLen"}]_vars

\* What holds of the code: the writes of t.layers are made under the mutex.
C34_LayersWrittenUnderMutex ==
    [][\A id \in DOMAIN ptree.tasks :
          (TaskGrow(id) \/ TaskStore(id)) => ptree.mutex = id]_vars

\* -----------------------------------------------------------------------
\* C35: after BuildTop the layer map of the cache reader passed in holds the
\* heights it held before the call, and every layer built on top is in the
\* reader returned.
C35_BuildTopLeavesInputHeights ==
    [][ret'.op = "BuildTop"
          => /\ DOMAIN ret'.input = DOMAIN ret.layers
             /\ ret'.err = NoErr => DOMAIN ret.layers \subseteq DOMAIN ret'.layers]_vars

\* What holds of the code: the reader returned and the reader passed in hold
\* the same layer map after a BuildTop that succeeds.
C35_BuildTopSharesTheMap ==
    (ret.op = "BuildTop" /\ ret.err = NoErr) => ret.input = ret.layers

\* -----------------------------------------------------------------------
\* C36: after a SetParkedNodes(vs) that returns no error, on a tree in any
\* state and for any non-empty list vs, GetParkedNodes() returns vs.
C36_SetThenGetParkedNodes ==
    (ret.op = "SetParkedNodes" /\ ret.err = NoErr)
        => GetParkedNodesOp(tree) = ret.nodes

\* What holds of the code: the entries of vs that are not nil are parked at
\* their heights, and the tree has at least as many layers as vs has entries.
C36_SetParkedNodesSetsTheGiven ==
    (ret.op = "SetParkedNodes" /\ ret.err = NoErr)
        => /\ Len(GetParkedNodesOp(tree)) >= Len(ret.nodes)
           /\ \A i \in 1..Len(ret.nodes) :
                 ret.nodes[i] # Nil => GetParkedNodesOp(tree)[i] = ret.nodes[i]

\* -----------------------------------------------------------------------
\* C37: within one traverseSubtree call the external padding is added as a
\* leaf at most once and only at the first io.EOF of the reader; after an
\* io.EOF that is not replaced by the padding nothing more is read or
\* added; every other leaf added is the next node of the layer, and at most
\* width leaves are added.
C37_PaddingOnceAtFirstEOF ==
    ret.op = "traverseSubtree"
        => /\ \A k \in 1..Len(ret.log) :
                 /\ (ret.log[k].eof /\ ret.log[k].added # <<>>)
                        => /\ ret.externalPadding # Nil
                           /\ ret.log[k].added = <<ret.externalPadding>>
                           /\ \A j \in 1..(k - 1) : ~ret.log[j].eof
                 /\ (ret.log[k].eof /\ ret.log[k].added = <<>>) => k = Len(ret.log)
                 /\ ~ret.log[k].eof => ret.log[k].added = <<ret.data[ret.pos + k]>>
           /\ Cardinality({k \in 1..Len(ret.log) : ret.log[k].added # <<>>}) <= ret.width

\* A call that added the padding at the first io.EOF and met a second io.EOF.
C37_Witness ==
    /\ ret.op = "traverseSubtree"
    /\ \E k \in 1..Len(ret.log) :
         /\ k > 1
         /\ k < Len(ret.log)
         /\ ret.log[k].eof
         /\ ret.log[k].added = <<ret.externalPadding>>
         /\ ret.log[k + 1].eof
         /\ ret.log[k + 1].added = <<>>

\* -----------------------------------------------------------------------
\* C38: every set of indices GenerateProof pops for a subtree holds exactly
\* the indices left in the iterator that are below firstLeaf.index + width,
\* none of them is below firstLeaf.index (the index relative to the subtree
\* is in 0..width-1), the iterator goes on with the other indices, and when
\* GenerateProof returns no error every proven index is in exactly one set.
C38_GroupsPartitionTheProvenIndices ==
    ret.op = "GenerateProof"
        => LET groups == ret.groups
               Left(k) == {groups[k].it[i] : i \in 1..Len(groups[k].it)}
           IN  /\ \A k \in 1..Len(groups) :
                     /\ groups[k].leavesToProve
                            = {i \in Left(k) : i < groups[k].firstLeaf + groups[k].width}
                     /\ \A i \in groups[k].leavesToProve :
                            /\ i >= groups[k].firstLeaf
                            /\ i - groups[k].firstLeaf \in 0..(groups[k].width - 1)
                     /\ groups[k].leavesToProve # {}
                     /\ Left(k) = IF k = 1 THEN toProve
                                  ELSE Left(k - 1) \ groups[k - 1].leavesToProve
               /\ \A k, l \in 1..Len(groups) :
                     k # l => groups[k].leavesToProve \cap groups[l].leavesToProve = {}
               /\ ret.err = NoErr
                     => UNION {groups[k].leavesToProve : k \in 1..Len(groups)} = toProve

\* A proof over two subtrees, the second one not at index 0 and with more
\* than one proven index.
C38_Witness ==
    /\ ret.op = "GenerateProof"
    /\ ret.err = NoErr
    /\ Len(ret.groups) >= 2
    /\ ret.groups[2].firstLeaf > 0
    /\ Cardinality(ret.groups[2].leavesToProve) >= 2

=============================================================================
